---- MODULE Spec2Model ----
(***************************************************************************)
(* Model of the serverless request handlers of the repository manager      *)
(* (supabase/functions/*/index.ts).  One behaviour is one invocation of    *)
(* one handler: the request body is validated, the caller's stored GitHub  *)
(* credential is looked up, ownership is checked where the handler does    *)
(* so, and the handler issues its requests to the GitHub REST API.  Two    *)
(* more entry points are modelled the same way: the SQL function           *)
(* update_user_github_token, which writes public.profiles, and the         *)
(* settings dialog of the UI, which invokes update-repo and delete-repo.   *)
(*                                                                         *)
(* Strings are sequences of one-character strings, so that prefix,         *)
(* substring and character-class tests are computed as the code computes   *)
(* them.  A JSON object is a function from its present keys to values; a   *)
(* key that is not in the DOMAIN is a missing / undefined field.           *)
(***************************************************************************)
EXTENDS Integers, Sequences, FiniteSets, TLC

VARIABLES fn, body, user, profile, pc, credRead, calls, response, loc,
          remote, uid, profiles

vars == <<fn, body, user, profile, pc, credRead, calls, response, loc,
          remote, uid, profiles>>

(***************************************************************************)
(* Bounds of the model.                                                    *)
(***************************************************************************)
\* longest files[] array drawn for upload-files and move-files
MaxFiles == 2
\* number of blob entries the source tree listing of a sync may hold
MaxSyncBlobs == 2

(***************************************************************************)
(* String primitives (String.prototype.startsWith / endsWith / includes /  *)
(* split('/').pop()).                                                      *)
(***************************************************************************)
StartsWith(s, p) ==
  /\ Len(p) <= Len(s)
  /\ \A k \in 1..Len(p) : s[k] = p[k]

EndsWith(s, p) ==
  /\ Len(p) <= Len(s)
  /\ \A k \in 1..Len(p) : s[Len(s) - Len(p) + k] = p[k]

Includes(s, p) ==
  \E o \in 0..(Len(s) - Len(p)) : \A k \in 1..Len(p) : s[o + k] = p[k]

\* file.path.split('/').pop(): what follows the last '/', the whole string
\* when there is none
LastSlash(s) ==
  IF \E k \in 1..Len(s) : s[k] = "/"
    THEN CHOOSE k \in 1..Len(s) : s[k] = "/" /\ \A j \in (k+1)..Len(s) : s[j] # "/"
    ELSE 0

SplitPop(s) == SubSeq(s, LastSlash(s) + 1, Len(s))

\* /^[...]+$/ over a character class
MatchesClass(s, class) == Len(s) >= 1 /\ \A k \in 1..Len(s) : s[k] \in class

\* the characters of the model's strings, by regex class
AlnumChars ==
  {"a", "b", "c", "d", "e", "i", "k", "m", "n", "o", "r", "s", "t", "x", "y", "A"}
OwnerClass == AlnumChars \cup {"-"}
RepoClass == AlnumChars \cup {".", "_", "-"}
BranchClass == AlnumChars \cup {".", "_", "/", "-"}

Has(obj, key) == key \in DOMAIN obj

\* a JSON object without one of its keys
Drop(obj, key) == [k \in (DOMAIN obj) \ {key} |-> obj[k]]

\* Response.ok: a status in 200..299.  Status 0 stands for a fetch that
\* rejects (network fault), which throws at the await.
Ok(status) == status >= 200 /\ status <= 299
Threw(status) == status = 0

(***************************************************************************)
(* Request schemas.  Each operator returns the set of top-level fields zod *)
(* reports an issue for (empty when the body is valid).                    *)
(***************************************************************************)
\* the refine() shared by the path fields of the validated handlers
NoTraversal(p) == ~Includes(p, <<".", ".">>) /\ ~StartsWith(p, <<"/">>)

OwnerOk(b) ==
  Has(b, "owner") /\ Len(b.owner) <= 39 /\ MatchesClass(b.owner, OwnerClass)

RepoOk(b) ==
  Has(b, "repo") /\ Len(b.repo) <= 100 /\ MatchesClass(b.repo, RepoClass)

OptBranchOk(b, key) ==
  Has(b, key) => (Len(b[key]) <= 255 /\ MatchesClass(b[key], BranchClass))

OptMessageOk(b) ==
  Has(b, "message") => (Len(b.message) >= 1 /\ Len(b.message) <= 500)

createFileSchema(b) ==
  {f \in {"owner"} : ~OwnerOk(b)}
  \cup {f \in {"repo"} : ~RepoOk(b)}
  \cup {f \in {"path"} : ~(Has(b, "path") /\ Len(b.path) >= 1
                            /\ Len(b.path) <= 4096 /\ NoTraversal(b.path))}
  \cup {f \in {"content"} : ~Has(b, "content")}
  \cup {f \in {"message"} : ~OptMessageOk(b)}
  \cup {f \in {"branch"} : ~OptBranchOk(b, "branch")}

deleteFileSchema(b) ==
  {f \in {"owner"} : ~OwnerOk(b)}
  \cup {f \in {"repo"} : ~RepoOk(b)}
  \cup {f \in {"path"} : ~(Has(b, "path") /\ Len(b.path) >= 1
                            /\ Len(b.path) <= 4096 /\ NoTraversal(b.path))}
  \cup {f \in {"sha"} : ~(Has(b, "sha") /\ Len(b.sha) >= 1 /\ Len(b.sha) <= 100)}
  \cup {f \in {"branch"} : ~(Has(b, "branch") =>
                               (Len(b.branch) >= 1 /\ Len(b.branch) <= 255))}
  \cup {f \in {"type"} : ~(Has(b, "type") => b.type \in {"file", "dir"})}

uploadFileItemOk(it) ==
  /\ Has(it, "path") /\ Len(it.path) >= 1 /\ Len(it.path) <= 4096
  /\ NoTraversal(it.path)
  /\ Has(it, "content")

uploadFilesSchema(b) ==
  {f \in {"owner"} : ~OwnerOk(b)}
  \cup {f \in {"repo"} : ~RepoOk(b)}
  \cup {f \in {"files"} : ~(Has(b, "files") /\ Len(b.files) >= 1
                             /\ Len(b.files) <= 100
                             /\ \A k \in 1..Len(b.files) : uploadFileItemOk(b.files[k]))}
  \cup {f \in {"message"} : ~OptMessageOk(b)}
  \cup {f \in {"branch"} : ~OptBranchOk(b, "branch")}

\* path is optional().default(''): a missing path is valid and becomes ''
getContentsSchema(b) ==
  {f \in {"owner"} : ~OwnerOk(b)}
  \cup {f \in {"repo"} : ~RepoOk(b)}
  \cup {f \in {"path"} : ~(Has(b, "path") =>
                             (Len(b.path) <= 4096 /\ NoTraversal(b.path)))}
  \cup {f \in {"ref"} : ~OptBranchOk(b, "ref")}

getBranchesSchema(b) ==
  {f \in {"repositoryName"} :
     ~(Has(b, "repositoryName") /\ Len(b.repositoryName) <= 100
       /\ MatchesClass(b.repositoryName, RepoClass))}

syncRepoSchema(b) ==
  {f \in {"sourceRepo", "destRepo"} :
     ~(Has(b, f) /\ Len(b[f]) <= 100 /\ MatchesClass(b[f], RepoClass))}
  \cup {f \in {"sourceBranch", "destBranch"} :
     ~(Has(b, f) /\ Len(b[f]) <= 255 /\ MatchesClass(b[f], BranchClass))}

createPRSchema(b) ==
  {f \in {"repositoryName"} :
     ~(Has(b, "repositoryName") /\ Len(b.repositoryName) <= 100
       /\ MatchesClass(b.repositoryName, RepoClass))}
  \cup {f \in {"title"} : ~(Has(b, "title") /\ Len(b.title) >= 1
                             /\ Len(b.title) <= 256)}
  \cup {f \in {"head", "base"} :
     ~(Has(b, f) /\ Len(b[f]) <= 255 /\ MatchesClass(b[f], BranchClass))}

renameFileSchema(b) ==
  {f \in {"owner", "repo", "sha"} : ~(Has(b, f) /\ Len(b[f]) >= 1)}
  \cup {f \in {"path", "new_path"} : ~Has(b, f)}

moveFileItemOk(it) ==
  Has(it, "path") /\ Has(it, "sha") /\ Has(it, "type") /\ it.type \in {"file", "dir"}

moveFilesSchema(b) ==
  {f \in {"owner", "repo"} : ~(Has(b, f) /\ Len(b[f]) >= 1)}
  \cup {f \in {"files"} : ~(Has(b, "files")
                             /\ \A k \in 1..Len(b.files) : moveFileItemOk(b.files[k]))}
  \cup {f \in {"destination"} : ~Has(b, "destination")}

renameRepoSchema(b) ==
  {f \in {"owner", "repo", "new_name"} : ~(Has(b, f) /\ Len(b[f]) >= 1)}

updateRepoSchema(b) ==
  {f \in {"owner", "repo"} : ~(Has(b, f) /\ Len(b[f]) >= 1)}
  \cup {f \in {"description"} : ~(Has(b, f) => Len(b[f]) <= 350)}
  \cup {f \in {"homepage"} : ~(Has(b, f) => Len(b[f]) <= 255)}

starRepoSchema(b) ==
  {f \in {"owner", "repo"} : ~(Has(b, f) /\ Len(b[f]) >= 1)}
  \cup {f \in {"starred"} : ~Has(b, f)}

(***************************************************************************)
(* Inputs: the callers, the stored credentials and the request bodies the  *)
(* model draws from.                                                       *)
(***************************************************************************)
Usernames == {<<"a">>, <<"b">>}
Token == <<"t">>

\* a row of public.profiles as the handlers select it; a NULL column (or no
\* row at all) is a missing key
Profiles ==
  {<<>>, [github_username |-> <<"a">>], [github_access_token |-> Token]}
  \cup {[github_access_token |-> Token, github_username |-> u] : u \in Usernames}

Owners == {<<"a">>, <<"A">>, <<"b">>, <<>>, <<"_">>}
Repo == <<"r">>
ReqPaths == {<<"e">>, <<"a", "/", "e">>, <<".", ".", "/", "e">>, <<"/", "e">>, <<>>}
BadBranch == <<"m", " ">>

\* S together with every body of S that lacks one of the given keys
WithDrops(S, keys) == S \cup {Drop(b, k) : b \in S, k \in keys}

CreateFileBodies ==
  LET plain == {[owner |-> o, repo |-> Repo, path |-> p, content |-> <<"k">>] :
                  o \in Owners, p \in ReqPaths}
      base == [owner |-> <<"a">>, repo |-> Repo, path |-> <<"e">>, content |-> <<"k">>]
  IN WithDrops(plain, {"owner", "repo", "path", "content"})
     \cup {base @@ [branch |-> br] : br \in {<<"m">>, BadBranch}}
     \cup {base @@ [message |-> m] : m \in {<<"m">>, <<>>}}

GetContentsBodies ==
  LET plain == {[owner |-> o, repo |-> Repo, path |-> p] :
                  o \in Owners, p \in ReqPaths}
      base == [owner |-> <<"a">>, repo |-> Repo, path |-> <<"e">>]
  IN WithDrops(plain, {"owner", "repo", "path"})
     \cup {base @@ [ref |-> br] : br \in {<<"m">>, BadBranch}}

GetBranchesBodies ==
  WithDrops({[repositoryName |-> n] : n \in {Repo, <<"r", " ">>, <<>>}},
            {"repositoryName"})

CreatePRBodies ==
  WithDrops({[repositoryName |-> n, title |-> t, head |-> <<"d">>, base |-> <<"m">>] :
               n \in {Repo, <<"r", " ">>}, t \in {<<"t">>, <<>>}},
            {"repositoryName", "title", "head", "base"})

RenameRepoBodies ==
  WithDrops({[owner |-> o, repo |-> Repo, new_name |-> n] :
               o \in Owners, n \in {<<"s">>, <<>>}},
            {"owner", "repo", "new_name"})

\* String.prototype.split(sep): the pieces of s between occurrences of sep
RECURSIVE Split(_, _)
Split(s, sep) ==
  IF \E k \in 1..Len(s) : s[k] = sep
    THEN LET k == CHOOSE j \in 1..Len(s) : s[j] = sep /\ \A i \in 1..(j-1) : s[i] # sep
         IN <<SubSeq(s, 1, k - 1)>> \o Split(SubSeq(s, k + 1, Len(s)), sep)
    ELSE <<s>>

\* String.prototype.trim()
RECURSIVE Trim(_)
Trim(s) ==
  IF s # <<>> /\ s[1] = " " THEN Trim(Tail(s))
  ELSE IF s # <<>> /\ s[Len(s)] = " " THEN Trim(SubSeq(s, 1, Len(s) - 1))
  ELSE s

\* data.topics ? data.topics.split(',').map(t => t.trim()).filter(Boolean) : []
topicsArray(topics) ==
  IF topics = <<>> THEN <<>>
  ELSE LET pieces == Split(topics, ",")
       IN SelectSeq([k \in 1..Len(pieces) |-> Trim(pieces[k])], LAMBDA t : t # <<>>)

\* the repository the settings dialog is opened on
DialogRepos ==
  {[name |-> Repo, full_name |-> <<"a", "/">> \o Repo, default_branch |-> <<"m">>]}

\* the values of the settings form when it is submitted
FormData ==
  [description : {<<>>, <<"d">>}, homepage : {<<>>}, private : BOOLEAN,
   default_branch : {<<>>, <<"d">>}, topics : {<<>>, <<"t", ",", " ", "u">>}]

\* the body onSubmit sends to update-repo
onSubmitBody(data, repo) ==
  [owner |-> Split(repo.full_name, "/")[1],
   repo |-> Split(repo.full_name, "/")[2],
   description |-> data.description,
   homepage |-> data.homepage,
   private |-> data.private,
   default_branch |-> IF data.default_branch # <<>> THEN data.default_branch
                                                    ELSE repo.default_branch,
   topics |-> topicsArray(data.topics)]

UpdateRepoBodies ==
  LET req == {[owner |-> o, repo |-> Repo] : o \in Owners}
      full == {b @@ [description |-> <<"d">>, homepage |-> <<>>, private |-> TRUE] :
                 b \in req}
  IN WithDrops(full, {"owner", "repo", "description", "homepage", "private"})
     \cup {b @@ [private |-> FALSE] : b \in req}
     \cup {onSubmitBody(data, repo) : data \in FormData, repo \in DialogRepos}

StarRepoBodies ==
  WithDrops({[owner |-> o, repo |-> Repo, starred |-> st] :
               o \in Owners, st \in BOOLEAN},
            {"owner", "repo", "starred"})

DeletePaths ==
  {<<"a">>, <<"a", "/">>, <<"a", "/", "c">>, <<"e">>,
   <<".", ".", "/", "e">>, <<"/", "e">>, <<>>}

DeleteFileBodies ==
  LET plain == {[owner |-> o, repo |-> Repo, path |-> p, sha |-> <<"1">>, type |-> t] :
                  o \in Owners, p \in DeletePaths, t \in {"file", "dir"}}
      base == {[owner |-> <<"a">>, repo |-> Repo, path |-> <<"a">>, sha |-> <<"1">>,
                type |-> t] : t \in {"file", "dir", "tree"}}
  IN WithDrops(plain, {"owner", "repo", "path", "sha", "type"})
     \cup base
     \cup {b @@ [branch |-> br] : b \in base, br \in {<<"d">>, <<>>}}

RenameFileBodies ==
  LET plain == {[owner |-> o, repo |-> Repo, path |-> p, new_path |-> q,
                 sha |-> <<"1">>] :
                  o \in {<<"a">>, <<"b">>, <<>>}, p \in {<<"x", "/", "o">>, <<"/", "o">>},
                  q \in {<<"x", "/", "n">>, <<".", ".", "/", "n">>, <<"/", "n">>}}
      base == [owner |-> <<"a">>, repo |-> Repo, path |-> <<"x", "/", "o">>,
               new_path |-> <<"x", "/", "n">>, sha |-> <<"1">>]
  IN WithDrops(plain, {"owner", "repo", "path", "new_path", "sha"})
     \cup {base @@ [branch |-> <<"d">>]}

\* files[] entries of a move: two files of the same name in two directories
MoveItems ==
  {[path |-> <<"x", "/", "o">>, sha |-> <<"1">>, type |-> "file"],
   [path |-> <<"y", "/", "o">>, sha |-> <<"2">>, type |-> "file"]}

RECURSIVE SeqsUpTo(_, _)
SeqsUpTo(S, n) ==
  IF n = 0 THEN {<<>>}
  ELSE LET shorter == SeqsUpTo(S, n - 1)
       IN shorter \cup {Append(q, x) : q \in shorter, x \in S}

\* the root and the directory one of the files is already in
Destinations == {<<>>, <<"x">>}

MoveFilesBodies ==
  LET plain == {[owner |-> <<"a">>, repo |-> Repo, files |-> fs, destination |-> d] :
                  fs \in SeqsUpTo(MoveItems, MaxFiles), d \in Destinations}
      item == [path |-> <<"x", "/", "o">>, sha |-> <<"1">>, type |-> "file"]
      base == [owner |-> <<"a">>, repo |-> Repo, files |-> <<item>>,
               destination |-> <<"y">>]
  IN plain
     \cup WithDrops({base, [base EXCEPT !.owner = <<>>]},
                    {"owner", "repo", "files", "destination"})
     \cup {[base EXCEPT !.files = <<Drop(item, k)>>] : k \in {"path", "sha", "type"}}
     \cup {[base EXCEPT !.files = <<[item EXCEPT !.path = q]>>] :
            q \in {<<".", ".", "/", "o">>, <<"/", "o">>}}
     \cup {[base EXCEPT !.destination = d] : d \in {<<".", ".">>, <<"/", "y">>}}
     \cup {base @@ [branch |-> <<"d">>]}

UploadItems ==
  {[path |-> <<"e">>, content |-> <<"k">>],
   [path |-> <<"a", "/", "e">>, content |-> <<"q">>]}

UploadFilesBodies ==
  LET plain == {[owner |-> o, repo |-> Repo, files |-> fs] :
                  o \in {<<"a">>, <<"A">>, <<"b">>},
                  fs \in SeqsUpTo(UploadItems, MaxFiles)}
      item == [path |-> <<"e">>, content |-> <<"k">>]
      base == [owner |-> <<"a">>, repo |-> Repo, files |-> <<item>>]
  IN plain
     \cup WithDrops({base, [base EXCEPT !.owner = <<"_">>]}, {"owner", "repo", "files"})
     \cup {[base EXCEPT !.files = <<Drop(item, k)>>] : k \in {"path", "content"}}
     \cup {[base EXCEPT !.files = <<[item EXCEPT !.path = q]>>] :
            q \in {<<".", ".", "/", "e">>, <<"/", "e">>, <<>>}}
     \cup {base @@ [branch |-> br] : br \in {<<"d">>, BadBranch}}

SyncRepoBodies ==
  LET plain == {[sourceRepo |-> Repo, destRepo |-> d, sourceBranch |-> <<"m">>,
                 destBranch |-> br] :
                  d \in {Repo, <<"s">>}, br \in {<<"m">>, <<"d">>}}
      base == [sourceRepo |-> Repo, destRepo |-> <<"s">>, sourceBranch |-> <<"m">>,
               destBranch |-> <<"m">>]
  IN WithDrops(plain, {"sourceRepo", "destRepo", "sourceBranch", "destBranch"})
     \cup {[base EXCEPT ![k] = <<"r", " ">>] :
            k \in {"sourceRepo", "destRepo", "sourceBranch", "destBranch"}}

\* auth.users ids, and auth.uid() of a request without a session (NULL)
UserIds == {"u1", "u2"}
NoSession == "null"

\* arguments of a call of update_user_github_token
TokenArgs ==
  [user_id : UserIds, access_token : {<<"t">>, <<"v">>}, username : Usernames,
   avatar_url : {<<"i">>}]

\* public.profiles when the function is called: each user has a row or none
ProfileTables ==
  LET stored == [github_access_token |-> <<"o">>, github_username |-> <<"b">>,
                 github_avatar_url |-> <<"i">>, updated_at |-> "before"]
  IN UNION {[ids -> {stored}] : ids \in SUBSET UserIds}

\* the props of the settings dialog
DialogProps == {[repo |-> repo] : repo \in DialogRepos}

Bodies(f) ==
  CASE f = "create-file" -> CreateFileBodies
    [] f = "upload-files" -> UploadFilesBodies
    [] f = "sync-repo-contents" -> SyncRepoBodies
    [] f = "rename-file" -> RenameFileBodies
    [] f = "move-files" -> MoveFilesBodies
    [] f = "delete-file" -> DeleteFileBodies
    [] f = "get-repo-contents" -> GetContentsBodies
    [] f = "get-repo-branches" -> GetBranchesBodies
    [] f = "create-pull-request" -> CreatePRBodies
    [] f = "rename-repo" -> RenameRepoBodies
    [] f = "update-repo" -> UpdateRepoBodies
    [] f = "star-repo" -> StarRepoBodies
    [] f = "update_user_github_token" -> TokenArgs
    [] f = "RepositorySettingsDialog" -> DialogProps

Functions ==
  {"create-file", "get-repo-contents", "get-repo-branches", "create-pull-request",
   "rename-repo", "update-repo", "star-repo", "delete-file", "rename-file",
   "move-files", "upload-files", "sync-repo-contents"}

\* statuses a GitHub request of the model may come back with (0: fetch rejects)
FetchStatuses == {0, 200, 401, 404, 422}

NoLocals == <<>>

(***************************************************************************)
(* The upstream repository.  GitHub is a black box to the handlers and any *)
(* answer is possible, except where the model follows a repository: then   *)
(* `remote` holds the files of the branch the request works on, the commit *)
(* the branch points at and the parents of the commits, other writers      *)
(* change them between the handler's requests, and a request succeeds only *)
(* when its precondition holds there.  The contents API checks blob hashes *)
(* and the git database API checks ancestry, so a followed repository      *)
(* carries the files for rename and sync and the commits for the directory *)
(* delete.                                                                 *)
(***************************************************************************)
\* number of changes other writers make during one request
MaxOtherWrites == 1

\* fileData.content of a contents read
Contents == {<<"k">>, <<"q">>}

\* the blob hash GitHub reports for a file of the given content
blobSha(content) == IF content = <<"k">> THEN <<"1">> ELSE <<"2">>

\* commits a branch ref may be read to point at
CommitShas == {<<"c", "1">>, <<"c", "2">>}

NotFollowed ==
  [followed |-> FALSE, repo |-> <<>>, paths |-> {}, files |-> <<>>,
   head |-> <<>>, parent |-> <<>>, writes |-> <<>>]

\* the states in which a followed repository may be when the request starts:
\* each of the paths holds a file of some content or none
Followed(repo, paths) ==
  {[followed |-> TRUE, repo |-> repo, paths |-> paths, files |-> files,
    head |-> <<"c", "1">>, parent |-> <<>>, writes |-> <<>>] :
     files \in UNION {[P -> Contents] : P \in SUBSET paths}}

\* the repository of a request is followed for the owner's rename of x/o, the
\* sync into another repository and the delete of directory a
Remotes(f, b) ==
  {NotFollowed} \cup
  (IF f = "rename-file" /\ renameFileSchema(b) = {} /\ ~Has(b, "branch")
        /\ b.owner = <<"a">> /\ b.path = <<"x", "/", "o">>
        /\ b.new_path = <<"x", "/", "n">>
     THEN Followed(b.repo, {b.path, b.new_path})
   ELSE IF f = "sync-repo-contents" /\ syncRepoSchema(b) = {}
        /\ b.sourceRepo # b.destRepo /\ b.destBranch = b.sourceBranch
     THEN Followed(b.destRepo, {<<"e">>})
   ELSE IF f = "delete-file" /\ deleteFileSchema(b) = {} /\ ~Has(b, "branch")
        /\ Has(b, "type") /\ b.type = "dir" /\ b.owner = <<"a">> /\ b.path = <<"a">>
     THEN Followed(b.repo, {})
   ELSE {})

\* commit a is commit c or one of its ancestors
RECURSIVE IsAncestor(_, _, _)
IsAncestor(a, c, parent) ==
  \/ a = c
  \/ c \in DOMAIN parent /\ IsAncestor(a, parent[c], parent)

\* what a followed repository requires of a request that succeeds, and what
\* the request does to it; a request that fails changes nothing
Upstream(c) ==
  IF ~remote.followed \/ c.repo # remote.repo \/ ~(c.status \in 200..299)
    THEN UNCHANGED remote
  ELSE IF c.api = "contents" /\ c.method = "GET"
    THEN /\ c.path \in DOMAIN remote.files
         /\ c.ret = IF fn = "sync-repo-contents"
                      THEN [sha |-> blobSha(remote.files[c.path])]
                      ELSE remote.files[c.path]
         /\ UNCHANGED remote
  ELSE IF c.api = "contents" /\ c.method = "PUT"
    THEN /\ IF c.path \in DOMAIN remote.files
              THEN Has(c.json, "sha") /\ c.json.sha = blobSha(remote.files[c.path])
              ELSE ~Has(c.json, "sha")
         /\ remote' = [remote EXCEPT !.files =
                          (c.path :> c.json.content) @@ remote.files]
  ELSE IF c.api = "contents" /\ c.method = "DELETE"
    THEN /\ c.path \in DOMAIN remote.files
         /\ c.json.sha = blobSha(remote.files[c.path])
         /\ remote' = [remote EXCEPT !.files =
                          [q \in DOMAIN remote.files \ {c.path} |-> remote.files[q]]]
  ELSE IF c.api = "git/refs" /\ c.method = "GET" /\ Has(c, "ret")
    THEN c.ret = remote.head /\ UNCHANGED remote
  ELSE IF c.api = "git/commits" /\ c.method = "POST"
    THEN remote' = [remote EXCEPT !.parent = (c.ret :> c.json.parents[1]) @@ remote.parent]
  ELSE IF c.api = "git/refs" /\ c.method = "PATCH"
    THEN /\ \/ Has(c.json, "force") /\ c.json.force
            \/ IsAncestor(remote.head, c.json.sha, remote.parent)
         /\ remote' = [remote EXCEPT !.head = c.json.sha]
  ELSE UNCHANGED remote

\* another writer changes the followed repository while the request runs: a
\* file is written or removed, or a commit is pushed onto the branch; writes
\* keeps, for each change, how many requests the handler had issued by then.
\* During a sync the changes fall while the handler is at the followed file,
\* before its probe or between its probe and its write: a change before
\* that is one of the states Followed starts in, and the handler issues no
\* request on the path after its write
OtherWriter ==
  /\ remote.followed /\ Len(remote.writes) < MaxOtherWrites
  /\ pc \notin {"start", "done"}
  /\ fn = "sync-repo-contents" =>
       pc \in {"probe", "write"} /\ loc.files[loc.i].path \in remote.paths
  /\ UNCHANGED <<uid, profiles, fn, body, user, profile, pc, credRead, calls,
                 response, loc>>
  /\ \/ \E p \in remote.paths, content \in Contents :
          /\ p \in DOMAIN remote.files => remote.files[p] # content
          /\ remote' = [remote EXCEPT !.files = (p :> content) @@ remote.files,
                                       !.writes = Append(remote.writes, Len(calls))]
     \/ \E p \in DOMAIN remote.files :
          remote' = [remote EXCEPT
                       !.files = [q \in DOMAIN remote.files \ {p} |-> remote.files[q]],
                       !.writes = Append(remote.writes, Len(calls))]
     \/ \E w \in CommitShas :
          /\ remote.paths = {}
          /\ w # remote.head /\ w \notin DOMAIN remote.parent
          /\ \A d \in DOMAIN remote.parent : remote.parent[d] # w
          /\ remote' = [remote EXCEPT !.head = w,
                                       !.parent = (w :> remote.head) @@ remote.parent,
                                       !.writes = Append(remote.writes, Len(calls))]

\* the state of the settings dialog when it opens
DialogOpened ==
  [isSaving |-> FALSE, isDeleting |-> FALSE, showDangerZone |-> FALSE,
   confirmation |-> <<>>, confirmed |-> FALSE]

\* public.profiles is not touched by a handler: it reads the caller's row
NoRows == <<>>

\* one behaviour is one invocation of a handler, one call of the SQL function
\* update_user_github_token, or one opening of the settings dialog
Init ==
  /\ fn \in Functions \cup {"update_user_github_token", "RepositorySettingsDialog"}
  /\ body \in Bodies(fn)
  /\ user \in (IF fn = "RepositorySettingsDialog" THEN {TRUE} ELSE BOOLEAN)
  /\ profile \in (IF user /\ fn \in Functions THEN Profiles ELSE {<<>>})
  /\ pc = (IF fn = "RepositorySettingsDialog" THEN "open" ELSE "start")
  /\ credRead = FALSE
  /\ calls = <<>>
  /\ response = [status |-> 0]
  /\ loc = (IF fn = "RepositorySettingsDialog" THEN DialogOpened ELSE NoLocals)
  /\ remote \in (IF user /\ profile = [github_access_token |-> Token,
                                        github_username |-> <<"a">>]
                   THEN Remotes(fn, body) ELSE {NotFollowed})
  /\ uid \in (IF fn = "update_user_github_token" /\ user THEN UserIds
                                                          ELSE {NoSession})
  /\ profiles \in (IF fn = "update_user_github_token" THEN ProfileTables
                                                       ELSE {NoRows})

(***************************************************************************)
(* Building blocks shared by the handlers.                                 *)
(***************************************************************************)
\* return new Response(JSON.stringify(r), {status})
Reply(r) == response' = r /\ pc' = "done"

\* the outer catch of every handler: any thrown fault becomes a 500
Caught == Reply([status |-> 500, error |-> TRUE])

\* safeParse failed: 400 with the issues listed in details
RejectInvalid(issues) ==
  Reply([status |-> 400, error |-> TRUE, details |-> issues])

\* Schema.parse(body) throws a ZodError, which the outer catch turns into 500
ParseThrows == Caught

\* _shared/github-helper.ts getGitHubToken(req): the caller's stored token and
\* username, or null when the session or the stored credential is absent
getGitHubToken ==
  IF user /\ Has(profile, "github_access_token") /\ Has(profile, "github_username")
    THEN profile
    ELSE <<>>

\* one request to the GitHub API together with the status it came back with
Fetch(c) == calls' = Append(calls, c) /\ Upstream(c)
NoFetch == UNCHANGED <<calls, remote>>

HasToken == Has(profile, "github_access_token")
HasUsername == Has(profile, "github_username")

\* github_username as JavaScript sees it: the string, or null/undefined
NullName == <<"n", "u", "l", "l">>
Username == IF HasUsername THEN profile.github_username ELSE NullName

\* a gate that compares the two names without regard to letter case
LowerCase(str) == [k \in 1..Len(str) |-> IF str[k] = "A" THEN "a" ELSE str[k]]
IsOwnerIgnoringCase(owner) == LowerCase(owner) = LowerCase(Username)

\* the ownership gate: owner !== profile.github_username, an exact match
IsOwner(owner) == owner = Username

\* branch || 'main'
Main == <<"m", "a", "i", "n">>
OrMain(b, key) == IF Has(b, key) /\ b[key] # <<>> THEN b[key] ELSE Main

\* btoa(String.fromCharCode(...encoder.encode(content))): the encoded text is
\* not the text itself
Base64(content) == <<"=">> \o content

(***************************************************************************)
(* Handlers that issue a single passthrough request.  Each action is the   *)
(* whole invocation.                                                       *)
(***************************************************************************)
CreateFile ==
  /\ fn = "create-file" /\ pc = "start"
  /\ UNCHANGED <<uid, profiles, fn, body, user, profile, loc>>
  /\ LET issues == createFileSchema(body) IN
     IF issues # {}
       THEN RejectInvalid(issues) /\ NoFetch /\ UNCHANGED credRead
       ELSE
         /\ credRead' = TRUE
         /\ IF ~user
              THEN Reply([status |-> 401, error |-> TRUE]) /\ NoFetch
            ELSE IF ~HasToken \/ ~HasUsername
              THEN Reply([status |-> 403, error |-> TRUE]) /\ NoFetch
            ELSE IF ~IsOwner(body.owner)
              THEN Reply([status |-> 403, error |-> TRUE]) /\ NoFetch
            ELSE \E st \in FetchStatuses :
              /\ Fetch([method |-> "PUT", api |-> "contents", owner |-> body.owner,
                        repo |-> body.repo, path |-> body.path, status |-> st,
                        json |-> [content |-> Base64(body.content),
                                  branch |-> OrMain(body, "branch")]])
              /\ IF Threw(st) THEN Caught
                 ELSE IF ~Ok(st) THEN Reply([status |-> st, error |-> TRUE])
                 ELSE Reply([status |-> 200, success |-> TRUE])

GetRepoContents ==
  /\ fn = "get-repo-contents" /\ pc = "start"
  /\ UNCHANGED <<uid, profiles, fn, body, user, profile, loc>>
  /\ LET issues == getContentsSchema(body)
         path == IF Has(body, "path") THEN body.path ELSE <<>>
     IN
     IF issues # {}
       THEN RejectInvalid(issues) /\ NoFetch /\ UNCHANGED credRead
       ELSE
         /\ credRead' = TRUE
         /\ IF ~user
              THEN Reply([status |-> 401, error |-> TRUE]) /\ NoFetch
            ELSE IF ~HasToken \/ ~HasUsername
              THEN Reply([status |-> 400, error |-> TRUE]) /\ NoFetch
            ELSE IF ~IsOwner(body.owner)
              THEN Reply([status |-> 403, error |-> TRUE]) /\ NoFetch
            ELSE \E st \in FetchStatuses :
              /\ Fetch([method |-> "GET", api |-> "contents", owner |-> body.owner,
                        repo |-> body.repo, path |-> path, status |-> st,
                        json |-> IF Has(body, "ref") THEN [ref |-> body.ref]
                                                    ELSE <<>>])
              /\ IF Threw(st) THEN Caught
                 ELSE IF ~Ok(st) THEN Reply([status |-> st, error |-> TRUE])
                 ELSE Reply([status |-> 200, contents |-> TRUE])

\* no owner in the body: the repository is looked up under the caller's own
\* username and the login GitHub reports for it is compared with that name
GetRepoBranches ==
  /\ fn = "get-repo-branches" /\ pc = "start"
  /\ UNCHANGED <<uid, profiles, fn, body, user, profile, loc>>
  /\ LET issues == getBranchesSchema(body) IN
     IF issues # {}
       THEN RejectInvalid(issues) /\ NoFetch /\ UNCHANGED credRead
       ELSE
         /\ credRead' = TRUE
         /\ IF ~user
              THEN Reply([status |-> 401, error |-> TRUE]) /\ NoFetch
            ELSE IF ~HasToken \/ ~HasUsername
              THEN Reply([status |-> 400, error |-> TRUE]) /\ NoFetch
            ELSE \E st1 \in FetchStatuses, login \in Usernames :
              LET check == [method |-> "GET", api |-> "repo", owner |-> Username,
                            repo |-> body.repositoryName, path |-> <<>>,
                            status |-> st1, json |-> <<>>]
              IN
              IF Threw(st1) THEN Fetch(check) /\ Caught
              ELSE IF ~Ok(st1)
                THEN Fetch(check) /\ Reply([status |-> 404, error |-> TRUE])
              ELSE IF login # Username
                THEN Fetch(check) /\ Reply([status |-> 403, error |-> TRUE])
              ELSE \E st2 \in FetchStatuses :
                /\ UNCHANGED remote
                /\ calls' = calls \o
                     <<check, [method |-> "GET", api |-> "branches",
                               owner |-> Username, repo |-> body.repositoryName,
                               path |-> <<>>, status |-> st2, json |-> <<>>]>>
                /\ IF Threw(st2) THEN Caught
                   ELSE IF ~Ok(st2) THEN Reply([status |-> st2, error |-> TRUE])
                   ELSE Reply([status |-> 200, branches |-> TRUE])

CreatePullRequest ==
  /\ fn = "create-pull-request" /\ pc = "start"
  /\ UNCHANGED <<uid, profiles, fn, body, user, profile, loc>>
  /\ LET issues == createPRSchema(body) IN
     IF issues # {}
       THEN RejectInvalid(issues) /\ NoFetch /\ UNCHANGED credRead
       ELSE
         /\ credRead' = TRUE
         /\ IF getGitHubToken = <<>>
              THEN Reply([status |-> 401, error |-> TRUE]) /\ NoFetch
            ELSE \E st \in FetchStatuses :
              /\ Fetch([method |-> "POST", api |-> "pulls", owner |-> Username,
                        repo |-> body.repositoryName, path |-> <<>>, status |-> st,
                        json |-> [title |-> body.title, head |-> body.head,
                                  base |-> body.base]])
              /\ IF Threw(st) THEN Caught
                 ELSE IF ~Ok(st) THEN Reply([status |-> st, error |-> TRUE])
                 ELSE Reply([status |-> 200, success |-> TRUE])

RenameRepo ==
  /\ fn = "rename-repo" /\ pc = "start"
  /\ UNCHANGED <<uid, profiles, fn, body, user, profile, loc>>
  /\ LET issues == renameRepoSchema(body) IN
     IF issues # {}
       THEN ParseThrows /\ NoFetch /\ UNCHANGED credRead
       ELSE
         /\ credRead' = TRUE
         /\ IF ~user
              THEN Reply([status |-> 401, error |-> TRUE]) /\ NoFetch
            ELSE IF ~HasToken
              THEN Reply([status |-> 401, error |-> TRUE]) /\ NoFetch
            ELSE IF ~IsOwner(body.owner)
              THEN Reply([status |-> 403, error |-> TRUE]) /\ NoFetch
            ELSE \E st \in FetchStatuses :
              /\ Fetch([method |-> "PATCH", api |-> "repo", owner |-> body.owner,
                        repo |-> body.repo, path |-> <<>>, status |-> st,
                        json |-> [name |-> body.new_name]])
              /\ IF Threw(st) THEN Caught
                 ELSE IF ~Ok(st) THEN Reply([status |-> st, error |-> TRUE])
                 ELSE Reply([status |-> 200, success |-> TRUE])

\* a PATCH body that forwards every field of the request but owner and repo
updateDataForwardAll(b) ==
  [k \in (DOMAIN b) \ {"owner", "repo"} |-> b[k]]

\* updateData: the keys among description, homepage and private that the
\* parsed body defines
updateData(b) ==
  [k \in (DOMAIN b) \cap {"description", "homepage", "private"} |-> b[k]]

UpdateRepo ==
  /\ fn = "update-repo" /\ pc = "start"
  /\ UNCHANGED <<uid, profiles, fn, body, user, profile, loc>>
  /\ LET issues == updateRepoSchema(body) IN
     IF issues # {}
       THEN ParseThrows /\ NoFetch /\ UNCHANGED credRead
       ELSE
         /\ credRead' = TRUE
         /\ IF ~user
              THEN Reply([status |-> 401, error |-> TRUE]) /\ NoFetch
            ELSE IF ~HasToken
              THEN Reply([status |-> 401, error |-> TRUE]) /\ NoFetch
            ELSE IF ~IsOwner(body.owner)
              THEN Reply([status |-> 403, error |-> TRUE]) /\ NoFetch
            ELSE \E st \in FetchStatuses :
              /\ Fetch([method |-> "PATCH", api |-> "repo", owner |-> body.owner,
                        repo |-> body.repo, path |-> <<>>, status |-> st,
                        json |-> updateData(body)])
              /\ IF Threw(st) THEN Caught
                 ELSE IF ~Ok(st) THEN Reply([status |-> st, error |-> TRUE])
                 ELSE Reply([status |-> 200, repository |-> TRUE])

\* no ownership gate: any owner/repo may be starred with the caller's token
StarRepo ==
  /\ fn = "star-repo" /\ pc = "start"
  /\ UNCHANGED <<uid, profiles, fn, body, user, profile, loc>>
  /\ LET issues == starRepoSchema(body) IN
     IF issues # {}
       THEN ParseThrows /\ NoFetch /\ UNCHANGED credRead
       ELSE
         /\ credRead' = TRUE
         /\ IF ~user
              THEN Reply([status |-> 401, error |-> TRUE]) /\ NoFetch
            ELSE IF ~HasToken
              THEN Reply([status |-> 401, error |-> TRUE]) /\ NoFetch
            ELSE \E st \in FetchStatuses :
              /\ Fetch([method |-> IF body.starred THEN "PUT" ELSE "DELETE",
                        api |-> "starred", owner |-> body.owner,
                        repo |-> body.repo, path |-> <<>>, status |-> st,
                        json |-> <<>>])
              /\ IF Threw(st) THEN Caught
                 ELSE IF ~Ok(st) THEN Reply([status |-> st, error |-> TRUE])
                 ELSE Reply([status |-> 200, success |-> TRUE])

(***************************************************************************)
(* delete-file.  A file is deleted with one contents DELETE; a directory   *)
(* is deleted by rewriting the branch: ref read, commit read, recursive    *)
(* tree read, tree create, commit create, ref update.                      *)
(***************************************************************************)
\* the objects GitHub answers the steps after the ref read with
BaseTreeSha == <<"t", "1">>
NewTreeSha == <<"t", "2">>
NewCommitSha == <<"c", "3">>

\* the recursive listing of a commit's tree: every blob is preceded by the
\* tree entries of its ancestor directories
TreeEntry(path, type, n) ==
  [path |-> path, mode |-> IF type = "tree" THEN <<"4">> ELSE <<"1">>,
   type |-> type, sha |-> <<"h", n>>, url |-> <<"u", n>>]

TreePool ==
  << TreeEntry(<<"a">>, "tree", "1"),
     TreeEntry(<<"a", "/", "b">>, "blob", "2"),
     TreeEntry(<<"a", "/", "c">>, "tree", "3"),
     TreeEntry(<<"a", "/", "c", "/", "d">>, "blob", "4"),
     TreeEntry(<<"a", ".", "t">>, "blob", "5"),
     TreeEntry(<<"a", "b">>, "tree", "6"),
     TreeEntry(<<"a", "b", "/", "x">>, "blob", "7"),
     TreeEntry(<<"e">>, "blob", "8") >>

PoolBlobs == {k \in 1..Len(TreePool) : TreePool[k].type = "blob"}

\* the listing of the tree that holds exactly the blobs of the pool in B
ListingOf(B) ==
  LET keep(e) ==
        \E k \in B : \/ TreePool[k] = e
                      \/ StartsWith(TreePool[k].path, e.path \o <<"/">>)
  IN SelectSeq(TreePool, keep)

Listings == {ListingOf(B) : B \in SUBSET PoolBlobs}

\* treeData.tree.filter(...).map(...): the entries that are not the target
\* and do not start with the target followed by '/', reduced to the four
\* keys the tree-create request takes
newTreeOf(tree, path) ==
  LET pathPrefix == IF EndsWith(path, <<"/">>) THEN path ELSE path \o <<"/">>
      kept(item) == ~StartsWith(item.path, pathPrefix) /\ item.path # path
      filtered == SelectSeq(tree, kept)
  IN [k \in 1..Len(filtered) |->
        [path |-> filtered[k].path, mode |-> filtered[k].mode,
         type |-> filtered[k].type, sha |-> filtered[k].sha]]

DeleteFileStart ==
  /\ fn = "delete-file" /\ pc = "start"
  /\ UNCHANGED <<uid, profiles, fn, body, user, profile, loc>>
  /\ NoFetch
  /\ LET issues == deleteFileSchema(body) IN
     IF issues # {}
       THEN RejectInvalid(issues) /\ UNCHANGED credRead
       ELSE
         /\ credRead' = TRUE
         /\ IF getGitHubToken = <<>>
              THEN Reply([status |-> 401, error |-> TRUE])
            ELSE IF ~IsOwner(body.owner)
              THEN Reply([status |-> 403, error |-> TRUE])
            ELSE /\ pc' = IF Has(body, "type") /\ body.type = "dir"
                            THEN "refRead" ELSE "fileDelete"
                 /\ UNCHANGED response

\* shape of a request to the git database or contents API of owner/repo
GitCall(method, api, path, json, st) ==
  [method |-> method, api |-> api, owner |-> body.owner, repo |-> body.repo,
   path |-> path, status |-> st, json |-> json]

\* a failed step that is always answered as an internal error
FailWithServerError(st) == Caught

\* a step whose request failed: a thrown fault goes to the outer catch, a
\* non-success status is passed through
FailWith(st) ==
  IF Threw(st) THEN Caught ELSE Reply([status |-> st, error |-> TRUE])

DeleteSingleFile ==
  /\ fn = "delete-file" /\ pc = "fileDelete"
  /\ UNCHANGED <<uid, profiles, fn, body, user, profile, credRead, loc>>
  /\ \E st \in FetchStatuses :
       /\ Fetch(GitCall("DELETE", "contents", body.path,
                        IF Has(body, "branch") /\ body.branch # <<>>
                          THEN [sha |-> body.sha, branch |-> body.branch]
                          ELSE [sha |-> body.sha], st))
       /\ IF Ok(st) THEN Reply([status |-> 200, success |-> TRUE])
                    ELSE FailWith(st)

DirRefRead ==
  /\ fn = "delete-file" /\ pc = "refRead"
  /\ UNCHANGED <<uid, profiles, fn, body, user, profile, credRead>>
  /\ \E st \in FetchStatuses, tip \in CommitShas :
       /\ Fetch(GitCall("GET", "git/refs", OrMain(body, "branch"), <<>>, st)
                @@ (IF Ok(st) THEN [ret |-> tip] ELSE <<>>))
       /\ IF Ok(st)
            THEN /\ loc' = [currentCommitSha |-> tip]
                 /\ pc' = "commitRead"
                 /\ UNCHANGED response
            ELSE FailWith(st) /\ UNCHANGED loc

DirCommitRead ==
  /\ fn = "delete-file" /\ pc = "commitRead"
  /\ UNCHANGED <<uid, profiles, fn, body, user, profile, credRead>>
  /\ \E st \in FetchStatuses :
       /\ Fetch(GitCall("GET", "git/commits", loc.currentCommitSha, <<>>, st)
                @@ (IF Ok(st) THEN [ret |-> BaseTreeSha] ELSE <<>>))
       /\ IF Ok(st)
            THEN /\ loc' = loc @@ [baseTreeSha |-> BaseTreeSha]
                 /\ pc' = "treeRead"
                 /\ UNCHANGED response
            ELSE FailWith(st) /\ UNCHANGED loc

DirTreeRead ==
  /\ fn = "delete-file" /\ pc = "treeRead"
  /\ UNCHANGED <<uid, profiles, fn, body, user, profile, credRead>>
  /\ \E st \in FetchStatuses, tree \in Listings :
       /\ Fetch(GitCall("GET", "git/trees", loc.baseTreeSha, <<>>, st)
                @@ (IF Ok(st) THEN [ret |-> tree] ELSE <<>>))
       /\ IF Ok(st)
            THEN /\ loc' = loc @@ [newTree |-> newTreeOf(tree, body.path)]
                 /\ pc' = "treeCreate"
                 /\ UNCHANGED response
            ELSE FailWith(st) /\ UNCHANGED loc

DirTreeCreate ==
  /\ fn = "delete-file" /\ pc = "treeCreate"
  /\ UNCHANGED <<uid, profiles, fn, body, user, profile, credRead>>
  /\ \E st \in FetchStatuses :
       /\ Fetch(GitCall("POST", "git/trees", <<>>, [tree |-> loc.newTree], st)
                @@ (IF Ok(st) THEN [ret |-> NewTreeSha] ELSE <<>>))
       /\ IF Ok(st)
            THEN /\ loc' = loc @@ [newTreeSha |-> NewTreeSha]
                 /\ pc' = "commitCreate"
                 /\ UNCHANGED response
            ELSE FailWith(st) /\ UNCHANGED loc

\* a commit create that names the tree of the old commit
DirCommitCreateOnBaseTree ==
  /\ fn = "delete-file" /\ pc = "commitCreate"
  /\ UNCHANGED <<uid, profiles, fn, body, user, profile, credRead>>
  /\ \E st \in FetchStatuses :
       /\ Fetch(GitCall("POST", "git/commits", <<>>,
                        [tree |-> loc.baseTreeSha,
                         parents |-> <<loc.currentCommitSha>>], st)
                @@ (IF Ok(st) THEN [ret |-> NewCommitSha] ELSE <<>>))
       /\ IF Ok(st)
            THEN /\ loc' = loc @@ [newCommitSha |-> NewCommitSha]
                 /\ pc' = "refUpdate"
                 /\ UNCHANGED response
            ELSE FailWith(st) /\ UNCHANGED loc

DirCommitCreate ==
  /\ fn = "delete-file" /\ pc = "commitCreate"
  /\ UNCHANGED <<uid, profiles, fn, body, user, profile, credRead>>
  /\ \E st \in FetchStatuses :
       /\ Fetch(GitCall("POST", "git/commits", <<>>,
                        [tree |-> loc.newTreeSha,
                         parents |-> <<loc.currentCommitSha>>], st)
                @@ (IF Ok(st) THEN [ret |-> NewCommitSha] ELSE <<>>))
       /\ IF Ok(st)
            THEN /\ loc' = loc @@ [newCommitSha |-> NewCommitSha]
                 /\ pc' = "refUpdate"
                 /\ UNCHANGED response
            ELSE FailWith(st) /\ UNCHANGED loc

\* a ref update that forces the branch onto the new commit
DirRefUpdateForced ==
  /\ fn = "delete-file" /\ pc = "refUpdate"
  /\ UNCHANGED <<uid, profiles, fn, body, user, profile, credRead, loc>>
  /\ \E st \in FetchStatuses :
       /\ Fetch(GitCall("PATCH", "git/refs", OrMain(body, "branch"),
                        [sha |-> loc.newCommitSha, force |-> TRUE], st))
       /\ IF Ok(st) THEN Reply([status |-> 200, success |-> TRUE])
                    ELSE FailWith(st)

DirRefUpdate ==
  /\ fn = "delete-file" /\ pc = "refUpdate"
  /\ UNCHANGED <<uid, profiles, fn, body, user, profile, credRead, loc>>
  /\ \E st \in FetchStatuses :
       /\ Fetch(GitCall("PATCH", "git/refs", OrMain(body, "branch"),
                        [sha |-> loc.newCommitSha], st))
       /\ IF Ok(st) THEN Reply([status |-> 200, success |-> TRUE])
                    ELSE FailWith(st)

(***************************************************************************)
(* rename-file and move-files: copy then delete through the contents API.  *)
(***************************************************************************)
\* statuses of the requests issued inside the copy-then-delete steps
StepStatuses == {0, 200, 422}

\* parse, session and token lookup shared by rename-file and move-files:
\* neither handler selects github_username nor compares it with owner
StartUngated(issues, first) ==
  /\ pc = "start"
  /\ UNCHANGED <<uid, profiles, fn, body, user, profile>>
  /\ NoFetch
  /\ IF issues # {}
       THEN ParseThrows /\ UNCHANGED <<credRead, loc>>
       ELSE
         /\ credRead' = TRUE
         /\ IF ~user \/ ~HasToken
              THEN Reply([status |-> 401, error |-> TRUE]) /\ UNCHANGED loc
              ELSE pc' = first /\ loc' = [i |-> 1] /\ UNCHANGED response

RenameFileStart ==
  /\ fn = "rename-file"
  /\ StartUngated(renameFileSchema(body), "read")

RenameRead ==
  /\ fn = "rename-file" /\ pc = "read"
  /\ UNCHANGED <<uid, profiles, fn, body, user, profile, credRead>>
  /\ \E st \in StepStatuses, c \in Contents :
       /\ Fetch(GitCall("GET", "contents", body.path,
                        [ref |-> OrMain(body, "branch")], st)
                @@ (IF Ok(st) THEN [ret |-> c] ELSE <<>>))
       /\ IF Ok(st)
            THEN /\ loc' = loc @@ [fileData |-> [content |-> c]]
                 /\ pc' = "write"
                 /\ UNCHANGED response
            ELSE FailWith(st) /\ UNCHANGED loc

\* a write whose response is not looked at, as in the move loop
RenameWriteUnchecked ==
  /\ fn = "rename-file" /\ pc = "write"
  /\ UNCHANGED <<uid, profiles, fn, body, user, profile, credRead, loc>>
  /\ \E st \in StepStatuses :
       /\ Fetch(GitCall("PUT", "contents", body.new_path,
                        [content |-> loc.fileData.content,
                         branch |-> OrMain(body, "branch")], st))
       /\ IF Threw(st) THEN Caught
                       ELSE pc' = "delete" /\ UNCHANGED response

RenameWrite ==
  /\ fn = "rename-file" /\ pc = "write"
  /\ UNCHANGED <<uid, profiles, fn, body, user, profile, credRead, loc>>
  /\ \E st \in StepStatuses :
       /\ Fetch(GitCall("PUT", "contents", body.new_path,
                        [content |-> loc.fileData.content,
                         branch |-> OrMain(body, "branch")], st))
       /\ IF Ok(st) THEN pc' = "delete" /\ UNCHANGED response
                    ELSE FailWith(st)

\* a delete that comes back with a non-success status is only logged
RenameDelete ==
  /\ fn = "rename-file" /\ pc = "delete"
  /\ UNCHANGED <<uid, profiles, fn, body, user, profile, credRead, loc>>
  /\ \E st \in StepStatuses :
       /\ Fetch(GitCall("DELETE", "contents", body.path,
                        [sha |-> body.sha, branch |-> OrMain(body, "branch")], st))
       /\ IF Threw(st) THEN Caught
                       ELSE Reply([status |-> 200, success |-> TRUE])

MoveFilesStart ==
  /\ fn = "move-files"
  /\ StartUngated(moveFilesSchema(body), "read")

\* destination ? `${destination}/${fileName}` : fileName
newPathOf(destination, path) ==
  IF destination # <<>> THEN destination \o <<"/">> \o SplitPop(path)
                        ELSE SplitPop(path)

\* a request of the loop body for files[loc.i]
MoveCall(method, path, json, st) ==
  GitCall(method, "contents", path, json, st) @@ [item |-> loc.i]

\* a read that is issued a second time when its first answer is a
\* non-success status
MoveReadRetrying ==
  /\ fn = "move-files" /\ pc = "read" /\ loc.i <= Len(body.files)
  /\ UNCHANGED <<uid, profiles, fn, body, user, profile, credRead>>
  /\ \E st \in StepStatuses, c \in Contents :
       /\ Fetch(MoveCall("GET", body.files[loc.i].path,
                         [ref |-> OrMain(body, "branch")], st)
                @@ (IF Ok(st) THEN [ret |-> c] ELSE <<>>))
       /\ IF Threw(st) THEN Caught /\ UNCHANGED loc
          ELSE IF ~Ok(st)
            THEN /\ loc' = [i |-> IF \A k \in 1..Len(calls) : calls[k].item # loc.i
                                   THEN loc.i ELSE loc.i + 1]
                 /\ UNCHANGED <<pc, response>>
          ELSE /\ loc' = [i |-> loc.i, fileData |-> [content |-> c]]
               /\ pc' = "write"
               /\ UNCHANGED response

\* the read of files[i]; a non-success status skips the item (continue)
MoveRead ==
  /\ fn = "move-files" /\ pc = "read" /\ loc.i <= Len(body.files)
  /\ UNCHANGED <<uid, profiles, fn, body, user, profile, credRead>>
  /\ \E st \in StepStatuses, c \in Contents :
       /\ Fetch(MoveCall("GET", body.files[loc.i].path,
                         [ref |-> OrMain(body, "branch")], st)
                @@ (IF Ok(st) THEN [ret |-> c] ELSE <<>>))
       /\ IF Threw(st) THEN Caught /\ UNCHANGED loc
          ELSE IF ~Ok(st)
            THEN loc' = [i |-> loc.i + 1] /\ UNCHANGED <<pc, response>>
          ELSE /\ loc' = [i |-> loc.i, fileData |-> [content |-> c]]
               /\ pc' = "write"
               /\ UNCHANGED response

\* a loop body that deletes the old location before it writes the new one
MoveDeleteThenWrite ==
  /\ fn = "move-files" /\ pc = "write"
  /\ UNCHANGED <<uid, profiles, fn, body, user, profile, credRead, response>>
  /\ \E st \in StepStatuses \ {0} :
       /\ UNCHANGED remote
       /\ calls' = calls \o
            << MoveCall("DELETE", body.files[loc.i].path,
                        [sha |-> body.files[loc.i].sha,
                         branch |-> OrMain(body, "branch")], st),
               MoveCall("PUT",
                        newPathOf(body.destination, body.files[loc.i].path),
                        [content |-> loc.fileData.content,
                         branch |-> OrMain(body, "branch")], st) >>
       /\ loc' = [i |-> loc.i + 1]
       /\ pc' = "read"

\* the write to the new location; its response is awaited and discarded
MoveWrite ==
  /\ fn = "move-files" /\ pc = "write"
  /\ UNCHANGED <<uid, profiles, fn, body, user, profile, credRead, loc>>
  /\ \E st \in StepStatuses :
       /\ Fetch(MoveCall("PUT",
                         newPathOf(body.destination, body.files[loc.i].path),
                         [content |-> loc.fileData.content,
                          branch |-> OrMain(body, "branch")], st))
       /\ IF Threw(st) THEN Caught
                       ELSE pc' = "delete" /\ UNCHANGED response

\* the delete of the old location; its response is awaited and discarded
MoveDelete ==
  /\ fn = "move-files" /\ pc = "delete"
  /\ UNCHANGED <<uid, profiles, fn, body, user, profile, credRead>>
  /\ \E st \in StepStatuses :
       /\ Fetch(MoveCall("DELETE", body.files[loc.i].path,
                         [sha |-> body.files[loc.i].sha,
                          branch |-> OrMain(body, "branch")], st))
       /\ IF Threw(st) THEN Caught /\ UNCHANGED loc
          ELSE /\ loc' = [i |-> loc.i + 1]
               /\ pc' = "read"
               /\ UNCHANGED response

MoveFinish ==
  /\ fn = "move-files" /\ pc = "read" /\ loc.i > Len(body.files)
  /\ UNCHANGED <<uid, profiles, fn, body, user, profile, credRead, loc>>
  /\ NoFetch
  /\ Reply([status |-> 200, success |-> TRUE])

(***************************************************************************)
(* upload-files: every file is written by its own request, all of them     *)
(* dispatched by files.map before any is awaited (Promise.all).            *)
(***************************************************************************)
\* status of a request that has been issued and has not settled yet
Pending == -1

UploadFilesStart ==
  /\ fn = "upload-files" /\ pc = "start"
  /\ UNCHANGED <<uid, profiles, fn, body, user, profile, loc>>
  /\ NoFetch
  /\ LET issues == uploadFilesSchema(body) IN
     IF issues # {}
       THEN RejectInvalid(issues) /\ UNCHANGED credRead
       ELSE
         /\ credRead' = TRUE
         /\ IF ~user
              THEN Reply([status |-> 401, error |-> TRUE])
            ELSE IF ~HasToken \/ ~HasUsername
              THEN Reply([status |-> 403, error |-> TRUE])
            ELSE IF ~IsOwner(body.owner)
              THEN Reply([status |-> 403, error |-> TRUE])
            ELSE pc' = "dispatch" /\ UNCHANGED response

\* files.map(async file => ...): each callback runs up to its fetch, in
\* input order, so request k is the write of files[k]
UploadDispatch ==
  /\ fn = "upload-files" /\ pc = "dispatch"
  /\ UNCHANGED <<uid, profiles, fn, body, user, profile, credRead, response>>
  /\ UNCHANGED remote
  /\ calls' = [k \in 1..Len(body.files) |->
                 GitCall("PUT", "contents", body.files[k].path,
                         [content |-> body.files[k].content,
                          branch |-> OrMain(body, "branch")], Pending)
                 @@ [item |-> k]]
  /\ loc' = [pending |-> 1..Len(body.files), results |-> <<>>]
  /\ pc' = "settle"

\* the entry of results for a file whose request came back with status st
\* (or rejected): the try/catch inside the callback absorbs every outcome
uploadResult(file, st) ==
  IF Ok(st) THEN [path |-> file.path, success |-> TRUE]
            ELSE [path |-> file.path, success |-> FALSE, error |-> TRUE]

\* a callback without its own try/catch: a rejected fetch rejects
\* Promise.all and the handler answers 500
UploadSettleUncaught ==
  /\ fn = "upload-files" /\ pc = "settle"
  /\ UNCHANGED <<uid, profiles, fn, body, user, profile, credRead>>
  /\ \E k \in loc.pending, st \in StepStatuses :
       /\ calls' = [calls EXCEPT ![k].status = st] /\ UNCHANGED remote
       /\ IF Threw(st)
            THEN Caught /\ UNCHANGED loc
            ELSE /\ loc' = [pending |-> loc.pending \ {k},
                            results |-> (k :> uploadResult(body.files[k], st))
                                        @@ loc.results]
                 /\ UNCHANGED <<pc, response>>

\* one outstanding request settles; the order of settling is not fixed
UploadSettle ==
  /\ fn = "upload-files" /\ pc = "settle"
  /\ UNCHANGED <<uid, profiles, fn, body, user, profile, credRead, response, pc>>
  /\ \E k \in loc.pending, st \in StepStatuses :
       /\ calls' = [calls EXCEPT ![k].status = st] /\ UNCHANGED remote
       /\ loc' = [pending |-> loc.pending \ {k},
                  results |-> (k :> uploadResult(body.files[k], st)) @@ loc.results]

\* Promise.all resolves with the results in input order
UploadRespond ==
  /\ fn = "upload-files" /\ pc = "settle" /\ loc.pending = {}
  /\ UNCHANGED <<uid, profiles, fn, body, user, profile, credRead, loc>>
  /\ NoFetch
  /\ LET results == [k \in 1..Len(body.files) |-> loc.results[k]]
         successCount == Cardinality({k \in 1..Len(results) : results[k].success})
     IN Reply([status |-> 200, success |-> TRUE, results |-> results,
               summary |-> [total |-> Len(body.files),
                            successful |-> successCount,
                            failed |-> Len(body.files) - successCount]])

(***************************************************************************)
(* sync-repo-contents: copy the blobs of the source tree into the          *)
(* destination branch, one file after another.                             *)
(***************************************************************************)
MAX_FILES == 100

\* a request of the sync handler: owner is always the caller's username
SyncCall(method, api, repo, path, json, st) ==
  [method |-> method, api |-> api, owner |-> Username, repo |-> repo,
   path |-> path, status |-> st, json |-> json]

SyncStart ==
  /\ fn = "sync-repo-contents" /\ pc = "start"
  /\ UNCHANGED <<uid, profiles, fn, body, user, profile, loc>>
  /\ NoFetch
  /\ LET issues == syncRepoSchema(body) IN
     IF issues # {}
       THEN RejectInvalid(issues) /\ UNCHANGED credRead
       ELSE
         /\ credRead' = TRUE
         /\ IF getGitHubToken = <<>>
              THEN Reply([status |-> 401, error |-> TRUE])
              ELSE pc' = "validateSource" /\ UNCHANGED response

\* a validation that only checks that the repository can be read
validateRepoExistsOnly(repo, next) ==
  /\ UNCHANGED <<uid, profiles, fn, body, user, profile, credRead, loc>>
  /\ \E st \in StepStatuses, login \in Usernames :
       /\ Fetch(SyncCall("GET", "repo", repo, <<>>, <<>>, st)
                @@ (IF Ok(st) THEN [ret |-> login] ELSE <<>>))
       /\ IF Ok(st)
            THEN pc' = next /\ UNCHANGED response
            ELSE Reply([status |-> 403, error |-> TRUE])

\* validateRepo(repo): the repository must be readable and report the
\* caller's login; any fault inside it is answered with 403
validateRepo(repo, next) ==
  /\ UNCHANGED <<uid, profiles, fn, body, user, profile, credRead, loc>>
  /\ \E st \in StepStatuses, login \in Usernames :
       /\ Fetch(SyncCall("GET", "repo", repo, <<>>, <<>>, st)
                @@ (IF Ok(st) THEN [ret |-> login] ELSE <<>>))
       /\ IF Ok(st) /\ login = Username
            THEN pc' = next /\ UNCHANGED response
            ELSE Reply([status |-> 403, error |-> TRUE])

SyncValidateSource ==
  /\ fn = "sync-repo-contents" /\ pc = "validateSource"
  /\ validateRepo(body.sourceRepo, "validateDest")

SyncValidateDest ==
  /\ fn = "sync-repo-contents" /\ pc = "validateDest"
  /\ validateRepo(body.destRepo, "branch")

\* _shared/github-helper.ts createOrGetBranch: the destination branch is
\* looked up and, when absent, created from the default branch tip
createOrGetBranch ==
  /\ UNCHANGED <<uid, profiles, fn, body, user, profile, credRead, loc>>
  /\ \E found \in BOOLEAN, created \in BOOLEAN :
       LET probe == SyncCall("GET", "git/refs", body.destRepo, body.destBranch,
                             <<>>, IF found THEN 200 ELSE 404)
           create == SyncCall("POST", "git/refs", body.destRepo, body.destBranch,
                              <<>>, IF created THEN 201 ELSE 422)
       IN
       IF found
         THEN Fetch(probe) /\ pc' = "tree" /\ UNCHANGED response
       ELSE IF created
         THEN calls' = calls \o <<probe, create>> /\ UNCHANGED remote /\ pc' = "tree"
              /\ UNCHANGED response
       ELSE /\ calls' = calls \o <<probe, create>> /\ UNCHANGED remote
            /\ Reply([status |-> 400, error |-> TRUE])

SyncBranch ==
  /\ fn = "sync-repo-contents" /\ pc = "branch"
  /\ createOrGetBranch

\* recursive listing of the source branch
SyncPool ==
  << TreeEntry(<<"d">>, "tree", "1"),
     TreeEntry(<<"d", "/", "x">>, "blob", "2"),
     TreeEntry(<<"e">>, "blob", "3"),
     TreeEntry(<<"o">>, "blob", "4") >>

SyncListings ==
  LET blobs == {k \in 1..Len(SyncPool) : SyncPool[k].type = "blob"}
      keep(B, e) ==
        \E k \in B : \/ SyncPool[k] = e
                      \/ StartsWith(SyncPool[k].path, e.path \o <<"/">>)
  IN {SelectSeq(SyncPool, LAMBDA e : keep(B, e)) :
        B \in {C \in SUBSET blobs : Cardinality(C) <= MaxSyncBlobs}}

\* file names of a tree with many files: the decimal numeral of k
Digit(n) == <<"0", "1", "2", "3", "4", "5", "6", "7", "8", "9">>[n + 1]
RECURSIVE Decimal(_)
Decimal(n) ==
  IF n < 10 THEN <<Digit(n)>> ELSE Decimal(n \div 10) \o <<Digit(n % 10)>>

\* the listing of a source branch that holds one directory with one file
\* more than the handler copies in one invocation
LargeListing ==
  <<TreeEntry(<<"d">>, "tree", "0")>>
  \o [k \in 1..(MAX_FILES + 1) |->
        TreeEntry(<<"d", "/">> \o Decimal(k), "blob", "9")]

\* the listings the source branch may have: account a holds the large tree
SourceListings ==
  SyncListings
  \cup (IF Username = <<"a">> /\ ~remote.followed THEN {LargeListing} ELSE {})

\* a loop over all the files, without the cap
SliceAll(files, n) == files

\* files.slice(0, MAX_FILES)
Slice(files, n) == SubSeq(files, 1, IF Len(files) < n THEN Len(files) ELSE n)

SyncTree ==
  /\ fn = "sync-repo-contents" /\ pc = "tree"
  /\ UNCHANGED <<uid, profiles, fn, body, user, profile, credRead>>
  /\ \E st \in StepStatuses \cup {401}, tree \in SourceListings :
       /\ Fetch(SyncCall("GET", "git/trees", body.sourceRepo, body.sourceBranch,
                         <<>>, st)
                @@ (IF Ok(st) THEN [ret |-> tree] ELSE <<>>))
       /\ IF Ok(st)
            THEN /\ loc' = [files |-> SelectSeq(tree, LAMBDA e : e.type = "blob"),
                            i |-> 1, syncedCount |-> 0]
                 /\ pc' = "read"
                 /\ UNCHANGED response
          ELSE IF st = 401
            THEN Reply([status |-> 401, error |-> TRUE]) /\ UNCHANGED loc
          ELSE Caught /\ UNCHANGED loc

\* the loop variables once the body of the loop is left for files[i]
NextFile(count) ==
  [files |-> loc.files, i |-> loc.i + 1, syncedCount |-> count]

\* a request of the loop that is always sent to the source repository
SyncFileCallOnSource(method, repo, json, st) ==
  SyncCall(method, "contents", body.sourceRepo, loc.files[loc.i].path, json, st)
  @@ [item |-> loc.i]

SyncFileCall(method, repo, json, st) ==
  SyncCall(method, "contents", repo, loc.files[loc.i].path, json, st)
  @@ [item |-> loc.i]

\* the answers GitHub may give to a request of the loop.  In a tree of up
\* to MaxSyncBlobs files every request is answered on its own; in a larger
\* tree the files after the first are answered as the first one was.
Answered(c) ==
  IF Len(loc.files) <= MaxSyncBlobs \/ loc.i = 1 THEN TRUE ELSE
     LET tree == CHOOSE k \in 1..Len(calls) : calls[k].api = "git/trees"
         done == Cardinality({k \in (tree + 1)..Len(calls) : calls[k].item = loc.i})
         first == calls[tree + 1 + done]
     IN /\ first.item = 1
        /\ first.status = c.status
        /\ Has(first, "ret") = Has(c, "ret")
        /\ Has(c, "ret") => first.ret = c.ret

\* a loop body without its try/catch: a read that throws ends the request
SyncReadUncaught ==
  /\ fn = "sync-repo-contents" /\ pc = "read"
  /\ loc.i <= Len(Slice(loc.files, MAX_FILES))
  /\ UNCHANGED <<uid, profiles, fn, body, user, profile, credRead>>
  /\ \E st \in StepStatuses, c \in Contents :
       /\ Fetch(SyncFileCall("GET", body.sourceRepo, [ref |-> body.sourceBranch], st)
                @@ (IF Ok(st) THEN [ret |-> c] ELSE <<>>))
       /\ Answered(calls'[Len(calls')])
       /\ IF Threw(st) THEN Caught /\ UNCHANGED loc
          ELSE IF Ok(st)
            THEN /\ loc' = loc @@ [fileData |-> [content |-> c]] /\ pc' = "probe"
                 /\ UNCHANGED response
            ELSE loc' = NextFile(loc.syncedCount) /\ UNCHANGED <<pc, response>>

SyncRead ==
  /\ fn = "sync-repo-contents" /\ pc = "read"
  /\ loc.i <= Len(Slice(loc.files, MAX_FILES))
  /\ UNCHANGED <<uid, profiles, fn, body, user, profile, credRead, response>>
  /\ \E st \in StepStatuses, c \in Contents :
       /\ Fetch(SyncFileCall("GET", body.sourceRepo, [ref |-> body.sourceBranch], st)
                @@ (IF Ok(st) THEN [ret |-> c] ELSE <<>>))
       /\ Answered(calls'[Len(calls')])
       /\ IF Ok(st)
            THEN loc' = loc @@ [fileData |-> [content |-> c]] /\ pc' = "probe"
            ELSE loc' = NextFile(loc.syncedCount) /\ UNCHANGED pc

\* what the probe of the destination answers when it succeeds: a file
\* object with its sha, or the listing of a directory, which has none
ProbeStatuses == {0, 200, 404}
ProbeShas ==
  {blobSha(content) : content \in IF remote.followed THEN Contents ELSE {<<"k">>}}
ProbeBodies == {[sha |-> h] : h \in ProbeShas} \cup {<<>>}

SyncProbe ==
  /\ fn = "sync-repo-contents" /\ pc = "probe"
  /\ UNCHANGED <<uid, profiles, fn, body, user, profile, credRead, response>>
  /\ \E st \in ProbeStatuses, found \in ProbeBodies :
       /\ Fetch(SyncFileCall("GET", body.destRepo, [ref |-> body.destBranch], st)
                @@ (IF Ok(st) THEN [ret |-> found] ELSE <<>>))
       /\ Answered(calls'[Len(calls')])
       /\ IF Threw(st)
            THEN loc' = NextFile(loc.syncedCount) /\ pc' = "read"
            ELSE /\ loc' = loc @@ [fileExists |-> Ok(st),
                                   existingFile |-> IF Ok(st) THEN found ELSE <<>>]
                 /\ pc' = "write"

\* a write that never names the version it replaces
shaOmitted(fileExists, existingFile) == <<>>

\* ...(fileExists && existingFile?.sha ? { sha: existingFile.sha } : {})
shaOf(fileExists, existingFile) ==
  IF fileExists /\ Has(existingFile, "sha") THEN [sha |-> existingFile.sha]
                                            ELSE <<>>

\* a write whose response is not looked at: every written file is counted
SyncWriteCountsAll ==
  /\ fn = "sync-repo-contents" /\ pc = "write"
  /\ UNCHANGED <<uid, profiles, fn, body, user, profile, credRead, response>>
  /\ \E st \in StepStatuses :
       /\ Fetch(SyncFileCall("PUT", body.destRepo,
                             [content |-> loc.fileData.content,
                              branch |-> body.destBranch]
                             @@ shaOf(loc.fileExists, loc.existingFile), st))
       /\ Answered(calls'[Len(calls')])
       /\ loc' = NextFile(IF Threw(st) THEN loc.syncedCount ELSE loc.syncedCount + 1)
       /\ pc' = "read"

\* a write that names whatever version the destination holds when it is
\* issued, not the version the probe saw
SyncWriteLatestVersion ==
  /\ fn = "sync-repo-contents" /\ pc = "write"
  /\ UNCHANGED <<uid, profiles, fn, body, user, profile, credRead, response>>
  /\ \E st \in StepStatuses :
       /\ Fetch(SyncFileCall("PUT", body.destRepo,
                             [content |-> loc.fileData.content,
                              branch |-> body.destBranch]
                             @@ (IF ~remote.followed
                                   THEN shaOf(loc.fileExists, loc.existingFile)
                                 ELSE IF loc.files[loc.i].path \in DOMAIN remote.files
                                   THEN [sha |-> blobSha(remote.files[loc.files[loc.i].path])]
                                 ELSE <<>>), st))
       /\ Answered(calls'[Len(calls')])
       /\ loc' = NextFile(IF Ok(st) THEN loc.syncedCount + 1 ELSE loc.syncedCount)
       /\ pc' = "read"

SyncWrite ==
  /\ fn = "sync-repo-contents" /\ pc = "write"
  /\ UNCHANGED <<uid, profiles, fn, body, user, profile, credRead, response>>
  /\ \E st \in StepStatuses :
       /\ Fetch(SyncFileCall("PUT", body.destRepo,
                             [content |-> loc.fileData.content,
                              branch |-> body.destBranch]
                             @@ shaOf(loc.fileExists, loc.existingFile), st))
       /\ Answered(calls'[Len(calls')])
       /\ loc' = NextFile(IF Ok(st) THEN loc.syncedCount + 1 ELSE loc.syncedCount)
       /\ pc' = "read"

SyncRespond ==
  /\ fn = "sync-repo-contents" /\ pc = "read"
  /\ loc.i > Len(Slice(loc.files, MAX_FILES))
  /\ UNCHANGED <<uid, profiles, fn, body, user, profile, credRead, loc>>
  /\ NoFetch
  /\ Reply([status |-> 200, success |-> TRUE, files_synced |-> loc.syncedCount,
            total_files |-> Len(loc.files)])

(***************************************************************************)
(* public.update_user_github_token (plpgsql, SECURITY DEFINER): the caller *)
(* check followed by the upsert of the row of user_id.                     *)
(***************************************************************************)
\* a != b in SQL: NULL when either side is NULL
SqlNotEqual(a, b) ==
  IF a = NoSession \/ b = NoSession THEN "null"
  ELSE IF a # b THEN "true" ELSE "false"

\* IF auth.uid() != user_id THEN RAISE EXCEPTION: the branch is taken only
\* when the condition is true, not when it is NULL; otherwise INSERT ... ON
\* CONFLICT (id) DO UPDATE
update_user_github_token ==
  /\ fn = "update_user_github_token" /\ pc = "start"
  /\ UNCHANGED <<uid, fn, body, user, profile, credRead, loc>>
  /\ NoFetch
  /\ IF SqlNotEqual(uid, body.user_id) = "true"
       THEN /\ Reply([status |-> 0, raised |-> TRUE])
            /\ UNCHANGED profiles
       ELSE /\ profiles' =
                 (body.user_id :> [github_access_token |-> body.access_token,
                                   github_username |-> body.username,
                                   github_avatar_url |-> body.avatar_url,
                                   updated_at |-> "now"])
                 @@ profiles
            /\ Reply([status |-> 0, raised |-> FALSE])

(***************************************************************************)
(* RepositorySettingsDialog: the settings form and the danger zone.  calls *)
(* holds the edge functions the dialog has invoked.                        *)
(***************************************************************************)
\* number of edge-function invocations of one opening of the dialog
MaxInvocations == 2

\* supabase.functions.invoke(name, {body})
Invoke(name, json, st) ==
  [method |-> "POST", api |-> "functions", owner |-> json.owner, repo |-> json.repo,
   path |-> <<>>, status |-> st, json |-> json, name |-> name]

\* the invocations of the named function that have not settled
Unsettled(name) ==
  {k \in 1..Len(calls) : calls[k].name = name /\ calls[k].status = Pending}

\* the frame of a step of the dialog
DialogStep ==
  /\ fn = "RepositorySettingsDialog" /\ pc = "open"
  /\ UNCHANGED <<uid, profiles, fn, body, user, profile, credRead, response, remote>>

\* Save Changes: onSubmit up to the await of the invocation
SettingsSubmit ==
  /\ DialogStep /\ ~loc.isSaving /\ Len(calls) < MaxInvocations
  /\ \E data \in FormData :
       calls' = Append(calls, Invoke("update-repo", onSubmitBody(data, body.repo),
                                     Pending))
  /\ loc' = [loc EXCEPT !.isSaving = TRUE]
  /\ UNCHANGED pc

\* onSubmit after the await: the dialog closes when the save succeeded
SettingsSaved ==
  /\ DialogStep
  /\ \E k \in Unsettled("update-repo"), st \in {200, 500} :
       /\ calls' = [calls EXCEPT ![k].status = st]
       /\ pc' = IF Ok(st) THEN "closed" ELSE "open"
  /\ loc' = [loc EXCEPT !.isSaving = FALSE]

\* the Delete Repository button of the danger zone
OpenDangerZone ==
  /\ DialogStep /\ ~loc.showDangerZone
  /\ loc' = [loc EXCEPT !.showDangerZone = TRUE]
  /\ UNCHANGED <<pc, calls>>

\* onChange of the confirmation input: only the input's data-confirmed
\* attribute follows what is typed
TypeConfirmation ==
  /\ DialogStep /\ loc.showDangerZone
  /\ \E text \in {<<>>, <<"x">>, body.repo.name} :
       /\ text # loc.confirmation
       /\ loc' = [loc EXCEPT !.confirmation = text,
                              !.confirmed = (text = body.repo.name)]
  /\ UNCHANGED <<pc, calls>>

\* "I understand, delete" (disabled only while isDeleting): handleDeleteRepo
\* up to the await of the invocation
handleDeleteRepo ==
  /\ DialogStep /\ loc.showDangerZone /\ ~loc.isDeleting
  /\ Len(calls) < MaxInvocations
  /\ calls' = Append(calls, Invoke("delete-repo",
                                     [owner |-> Split(body.repo.full_name, "/")[1],
                                      repo |-> Split(body.repo.full_name, "/")[2]],
                                     Pending))
  /\ loc' = [loc EXCEPT !.isDeleting = TRUE]
  /\ UNCHANGED pc

\* handleDeleteRepo after the await: the dialog closes when the delete
\* succeeded
DeleteSettled ==
  /\ DialogStep
  /\ \E k \in Unsettled("delete-repo"), st \in {200, 500} :
       /\ calls' = [calls EXCEPT ![k].status = st]
       /\ pc' = IF Ok(st) THEN "closed" ELSE "open"
  /\ loc' = [loc EXCEPT !.isDeleting = FALSE]

Next ==
  \/ CreateFile
  \/ GetRepoContents
  \/ GetRepoBranches
  \/ CreatePullRequest
  \/ RenameRepo
  \/ UpdateRepo
  \/ StarRepo
  \/ DeleteFileStart
  \/ DeleteSingleFile
  \/ DirRefRead
  \/ DirCommitRead
  \/ DirTreeRead
  \/ DirTreeCreate
  \/ DirCommitCreate
  \/ DirRefUpdate
  \/ RenameFileStart
  \/ RenameRead
  \/ RenameWrite
  \/ RenameDelete
  \/ MoveFilesStart
  \/ MoveRead
  \/ MoveWrite
  \/ MoveDelete
  \/ MoveFinish
  \/ UploadFilesStart
  \/ UploadDispatch
  \/ UploadSettle
  \/ UploadRespond
  \/ SyncStart
  \/ SyncValidateSource
  \/ SyncValidateDest
  \/ SyncBranch
  \/ SyncTree
  \/ SyncRead
  \/ SyncProbe
  \/ SyncWrite
  \/ SyncRespond
  \/ OtherWriter
  \/ update_user_github_token
  \/ SettingsSubmit
  \/ SettingsSaved
  \/ OpenDangerZone
  \/ TypeConfirmation
  \/ handleDeleteRepo
  \/ DeleteSettled

Spec == Init /\ [][Next]_vars

(***************************************************************************)
(* Vocabulary of the properties.                                           *)
(***************************************************************************)
\* the issues the handler's own schema reports for a body
SchemaIssues(f, b) ==
  CASE f = "create-file" -> createFileSchema(b)
    [] f = "delete-file" -> deleteFileSchema(b)
    [] f = "upload-files" -> uploadFilesSchema(b)
    [] f = "get-repo-contents" -> getContentsSchema(b)
    [] f = "get-repo-branches" -> getBranchesSchema(b)
    [] f = "sync-repo-contents" -> syncRepoSchema(b)
    [] f = "create-pull-request" -> createPRSchema(b)
    [] f = "rename-file" -> renameFileSchema(b)
    [] f = "move-files" -> moveFilesSchema(b)
    [] f = "rename-repo" -> renameRepoSchema(b)
    [] f = "update-repo" -> updateRepoSchema(b)
    [] f = "star-repo" -> starRepoSchema(b)
    [] OTHER -> {}

Valid == SchemaIssues(fn, body) = {}
Done == pc = "done"

\* the caller is authenticated, has a stored username, and names another owner
OwnerMismatch ==
  /\ Valid /\ user /\ HasUsername
  /\ body.owner # profile.github_username

Rejected403 == calls = <<>> /\ (Done => response.status = 403)

GatedFunctions ==
  {"create-file", "delete-file", "upload-files", "get-repo-contents",
   "rename-repo", "update-repo"}

\* C1 as stated: in the six gated handlers a valid request of an authenticated
\* caller whose owner differs from the stored username is answered 403 and
\* no request reaches GitHub.
C1_AsStated ==
  (fn \in GatedFunctions /\ OwnerMismatch) => Rejected403

\* C1 (amended): in create-file, delete-file, upload-files, get-repo-contents,
\* rename-repo and update-repo, a valid request of an authenticated caller
\* who has both a GitHub token and a username stored, and whose owner is not
\* exactly (case-sensitively) that username, is answered 403 with no request
\* issued to GitHub; when the token is missing the request is still refused
\* without any GitHub request, with the handler's missing-credential status.
C1_OwnershipGate ==
  (fn \in GatedFunctions /\ OwnerMismatch) =>
     /\ calls = <<>>
     /\ Done => response.status = IF HasToken THEN 403
                                  ELSE IF fn \in {"create-file", "upload-files"} THEN 403
                                  ELSE IF fn = "get-repo-contents" THEN 400
                                  ELSE 401

\* an owner that differs from the stored username only by letter case has
\* been refused by delete-file
C1_Witness ==
  /\ fn = "delete-file" /\ Done /\ OwnerMismatch /\ HasToken
  /\ body.owner = <<"A">> /\ profile.github_username = <<"a">>
  /\ response.status = 403 /\ calls = <<>>

\* C2: rename-file and move-files refuse a request whose owner differs from
\* the caller's stored username with 403 and issue no read, write or delete.
C2_GateOnRenameAndMove ==
  (fn \in {"rename-file", "move-files"} /\ OwnerMismatch /\ HasToken) => Rejected403

\* C3: in every handler an invalid body is answered 400 with a details array
\* naming offending fields, before any credential lookup or GitHub request.
C3_InvalidBodyIs400 ==
  ~Valid =>
     /\ ~credRead
     /\ calls = <<>>
     /\ Done => /\ response.status = 400
                /\ Has(response, "details")
                /\ response.details # {}
                /\ response.details \subseteq SchemaIssues(fn, body)

\* the path-bearing fields of a request body
PathValues(f, b) ==
  CASE f \in {"create-file", "delete-file", "get-repo-contents"} ->
         {b[k] : k \in {"path"} \cap DOMAIN b}
    [] f = "rename-file" -> {b[k] : k \in {"path", "new_path"} \cap DOMAIN b}
    [] f = "upload-files" ->
         IF Has(b, "files")
           THEN {b.files[k].path : k \in {j \in 1..Len(b.files) : Has(b.files[j], "path")}}
           ELSE {}
    [] f = "move-files" ->
         (IF Has(b, "files")
            THEN {b.files[k].path : k \in {j \in 1..Len(b.files) : Has(b.files[j], "path")}}
            ELSE {})
         \cup {b[k] : k \in {"destination"} \cap DOMAIN b}
    [] OTHER -> {}

Traverses(p) == Includes(p, <<".", ".">>) \/ StartsWith(p, <<"/">>)

\* C4: a request with a path-bearing field that contains '..' or starts with
\* '/' never passes validation, and no contents URL is built from such a
\* value.
C4_NoTraversalReachesGitHub ==
  /\ (\E p \in PathValues(fn, body) : Traverses(p)) =>
        calls = <<>>
  /\ \A k \in 1..Len(calls) :
        calls[k].api = "contents" => ~Traverses(calls[k].path)

\* the requests issued so far for item i of a loop
ItemCalls(i) == {k \in 1..Len(calls) : calls[k].item = i}

\* C5: in move-files the old path of an item is deleted only after the write
\* of that item to the new path has succeeded.
C5_NoDeleteAfterFailedWrite ==
  fn = "move-files" =>
    \A k \in 1..Len(calls) :
      calls[k].method = "DELETE" =>
        \E j \in 1..(k - 1) : /\ calls[j].method = "PUT"
                              /\ calls[j].item = calls[k].item
                              /\ Ok(calls[j].status)

\* n is the last segment of p: a suffix without '/' that starts the string or
\* follows a '/'
IsBaseName(n, p) ==
  /\ EndsWith(p, n)
  /\ \A k \in 1..Len(n) : n[k] # "/"
  /\ Len(n) < Len(p) => p[Len(p) - Len(n)] = "/"

\* t is destination/basename(p), the basename alone when the destination is
\* the root
IsMoveTarget(t, destination, p) ==
  \E n \in {SubSeq(p, j, Len(p)) : j \in 1..(Len(p) + 1)} :
    /\ IsBaseName(n, p)
    /\ t = IF destination = <<>> THEN n ELSE destination \o <<"/">> \o n

\* C6: move-files handles its items one after another, each as a read of the
\* old path, then a write of what was read to destination/basename, then a
\* delete of the old path with the item's own sha; no request is issued
\* before the one before it has returned.
C6_MoveOrder ==
  fn = "move-files" =>
    \A k \in 1..Len(calls) :
      LET c == calls[k]
          f == body.files[c.item]
      IN
      /\ c.status # Pending
      /\ k < Len(calls) => ~Threw(c.status)
      /\ c.method \in {"GET", "PUT", "DELETE"}
      /\ c.method = "GET" =>
           /\ c.path = f.path
           /\ IF k = 1 THEN c.item = 1
              ELSE /\ calls[k-1].item = c.item - 1
                   /\ \/ calls[k-1].method = "DELETE"
                      \/ calls[k-1].method = "GET" /\ ~Ok(calls[k-1].status)
      /\ c.method = "PUT" =>
           /\ k > 1
           /\ calls[k-1].method = "GET" /\ calls[k-1].item = c.item
           /\ Ok(calls[k-1].status)
           /\ c.json.content = calls[k-1].ret
           /\ IsMoveTarget(c.path, body.destination, f.path)
      /\ c.method = "DELETE" =>
           /\ k > 1
           /\ calls[k-1].method = "PUT" /\ calls[k-1].item = c.item
           /\ c.path = f.path
           /\ c.json.sha = f.sha

\* two items have each been read, written and deleted, in that order
C6_Witness ==
  /\ fn = "move-files" /\ Done /\ response.status = 200
  /\ Len(body.files) = 2 /\ Len(calls) = 6
  /\ calls[4].method = "GET" /\ calls[4].item = 2
  /\ calls[6].method = "DELETE" /\ calls[6].json.sha = <<"2">>

\* the directory a delete request names, without trailing slashes
RECURSIVE DirOf(_)
DirOf(path) ==
  IF Len(path) > 0 /\ path[Len(path)] = "/"
    THEN DirOf(SubSeq(path, 1, Len(path) - 1))
    ELSE path

\* the entries of a listing outside directory dir, with the four keys of a
\* tree-create entry
EntriesOutside(tree, dir) ==
  LET outside(e) == e.path # dir /\ ~StartsWith(e.path, dir \o <<"/">>)
      rest == SelectSeq(tree, outside)
  IN [k \in 1..Len(rest) |->
        [path |-> rest[k].path, mode |-> rest[k].mode, type |-> rest[k].type,
         sha |-> rest[k].sha]]

\* C7: the tree a directory delete creates lists exactly the entries of the
\* tree it read that are neither the target directory nor nested under it,
\* each with its path, mode, type and sha unchanged.
C7_NewTreeIsTheRest ==
  fn = "delete-file" =>
    \A k \in 2..Len(calls) :
      (calls[k].method = "POST" /\ calls[k].api = "git/trees") =>
         calls[k].json.tree = EntriesOutside(calls[k-1].ret, DirOf(body.path))

\* C8: a directory delete that succeeds has issued exactly ref read, commit
\* read, tree read, tree create, commit create and ref update, in this order,
\* each on the output of the step before; the ref is updated once, last, to
\* the new commit, whose tree is the new tree and whose only parent is the
\* commit the ref was read at.
C8_DirectoryDeleteChain ==
  fn = "delete-file" =>
    /\ \A k \in 1..Len(calls) :
         calls[k].method = "PATCH" => (k = 6 /\ k = Len(calls))
    /\ (Done /\ response.status = 200 /\ Has(body, "type") /\ body.type = "dir") =>
         /\ Len(calls) = 6
         /\ \A k \in 1..6 : Ok(calls[k].status)
         /\ calls[1].method = "GET" /\ calls[1].api = "git/refs"
         /\ calls[2].method = "GET" /\ calls[2].api = "git/commits"
         /\ calls[2].path = calls[1].ret
         /\ calls[3].method = "GET" /\ calls[3].api = "git/trees"
         /\ calls[3].path = calls[2].ret
         /\ calls[4].method = "POST" /\ calls[4].api = "git/trees"
         /\ \A j \in 1..Len(calls[4].json.tree) :
              \E e \in {calls[3].ret[i] : i \in 1..Len(calls[3].ret)} :
                 /\ e.path = calls[4].json.tree[j].path
                 /\ e.sha = calls[4].json.tree[j].sha
         /\ calls[5].method = "POST" /\ calls[5].api = "git/commits"
         /\ calls[5].json.tree = calls[4].ret
         /\ calls[5].json.parents = <<calls[1].ret>>
         /\ calls[6].method = "PATCH" /\ calls[6].api = "git/refs"
         /\ calls[6].path = calls[1].path
         /\ calls[6].json.sha = calls[5].ret

\* a directory holding files has been deleted from a branch read at c2
C8_Witness ==
  /\ fn = "delete-file" /\ Done /\ response.status = 200
  /\ Has(body, "type") /\ body.type = "dir" /\ body.path = <<"a">>
  /\ Len(calls) = 6
  /\ calls[1].ret = <<"c", "2">>
  /\ Len(calls[3].ret) = Len(TreePool)
  /\ Len(calls[4].json.tree) = 4

\* C9: every write of a sync carries a sha exactly when the probe of the same
\* path on destBranch, issued just before it, found a file, and the sha is
\* the one the probe returned.
C9_SyncShaFromProbe ==
  fn = "sync-repo-contents" =>
    \A k \in 1..Len(calls) :
      calls[k].method = "PUT" =>
        /\ k > 1
        /\ LET probe == calls[k-1]
               found == Ok(probe.status) /\ Has(probe.ret, "sha")
           IN
           /\ probe.method = "GET" /\ probe.api = "contents"
           /\ probe.repo = body.destRepo /\ probe.path = calls[k].path
           /\ probe.json = [ref |-> body.destBranch]
           /\ probe.item = calls[k].item
           /\ Has(calls[k].json, "sha") <=> found
           /\ found => calls[k].json.sha = probe.ret.sha

\* one file was written over an existing file, another was created
C9_Witness ==
  /\ fn = "sync-repo-contents" /\ Done
  /\ \E k \in 1..Len(calls) :
       /\ calls[k].method = "PUT" /\ Has(calls[k].json, "sha")
       /\ calls[k].json.sha = <<"1">> /\ Ok(calls[k].status)
  /\ \E k \in 1..Len(calls) :
       /\ calls[k].method = "PUT" /\ ~Has(calls[k].json, "sha")
       /\ ~Ok(calls[k-1].status)

\* the caller owns the repository named in a valid request
OwnerRequest ==
  /\ Valid /\ user /\ HasToken /\ HasUsername
  /\ body.owner = profile.github_username

\* C10: an upload of N files by the owner attempts N writes whatever their
\* outcomes, answers with one result per file in input order, carrying the
\* file's path and whether its write succeeded, and with a summary of N in
\* total, the number of successful writes, and the rest as failed.
C10_UploadAttemptsAll ==
  (fn = "upload-files" /\ OwnerRequest /\ Done) =>
    LET N == Len(body.files)
        won == {k \in 1..N : Ok(calls[k].status)}
    IN
    /\ N >= 1
    /\ response.status = 200
    /\ Len(calls) = N
    /\ \A k \in 1..N : /\ calls[k].method = "PUT"
                       /\ calls[k].path = body.files[k].path
                       /\ calls[k].status # Pending
    /\ Len(response.results) = N
    /\ \A k \in 1..N : /\ response.results[k].path = body.files[k].path
                       /\ response.results[k].success = (k \in won)
    /\ response.summary.total = N
    /\ response.summary.successful = Cardinality(won)
    /\ response.summary.failed = N - Cardinality(won)

\* of two files the first write was rejected with a fault and the second
\* succeeded
C10_Witness ==
  /\ fn = "upload-files" /\ OwnerRequest /\ Done /\ Len(body.files) = 2
  /\ Threw(calls[1].status) /\ Ok(calls[2].status)
  /\ response.summary = [total |-> 2, successful |-> 1, failed |-> 1]
  /\ ~response.results[1].success

\* a repository check that passed: the repository was read and its owner
\* login is the caller's username
RepoPassed(c, repo) ==
  /\ c.method = "GET" /\ c.api = "repo" /\ c.repo = repo
  /\ Ok(c.status) /\ c.ret = Username

\* c is a request of the branch step for the destination branch
BranchCall(c) ==
  c.api = "git/refs" /\ c.repo = body.destRepo /\ c.path = body.destBranch

\* the destination branch was found by the third request or created by the
\* fourth
BranchPassed ==
  /\ Len(calls) >= 3 /\ BranchCall(calls[3])
  /\ \/ Ok(calls[3].status)
     \/ Len(calls) >= 4 /\ BranchCall(calls[4]) /\ Ok(calls[4].status)

\* C11: a valid sync request checks, in this order, the credential (else
\* 401), the source repository and then the destination repository (else
\* 403), and the destination branch (else 400); the first check that fails
\* ends the request, and the source tree is listed and files are read or
\* written only after all of them passed.
C11_SyncPreconditionOrder ==
  (fn = "sync-repo-contents" /\ Valid) =>
    /\ getGitHubToken = <<>> =>
          calls = <<>> /\ (Done => response.status = 401)
    /\ Len(calls) >= 1 =>
          /\ calls[1].api = "repo" /\ calls[1].repo = body.sourceRepo
          /\ ~RepoPassed(calls[1], body.sourceRepo) =>
                Len(calls) = 1 /\ Done /\ response.status = 403
    /\ Len(calls) >= 2 =>
          /\ calls[2].api = "repo" /\ calls[2].repo = body.destRepo
          /\ ~RepoPassed(calls[2], body.destRepo) =>
                Len(calls) = 2 /\ Done /\ response.status = 403
    /\ Len(calls) >= 3 =>
          /\ BranchCall(calls[3])
          /\ ~BranchPassed =>
                /\ \A k \in 3..Len(calls) : BranchCall(calls[k])
                /\ Done /\ response.status = 400
    /\ (\E k \in 1..Len(calls) : calls[k].api \in {"git/trees", "contents"}) =>
          /\ RepoPassed(calls[1], body.sourceRepo)
          /\ RepoPassed(calls[2], body.destRepo)
          /\ BranchPassed
          /\ \A k \in 1..(IF Ok(calls[3].status) THEN 3 ELSE 4) :
                calls[k].api \notin {"git/trees", "contents"}

\* both repositories passed and the destination branch could be neither
\* found nor created: the request ended with 400 before any tree listing
C11_Witness ==
  /\ fn = "sync-repo-contents" /\ Valid /\ Done /\ response.status = 400
  /\ Len(calls) = 4
  /\ RepoPassed(calls[1], body.sourceRepo) /\ RepoPassed(calls[2], body.destRepo)
  /\ BranchCall(calls[4]) /\ ~Ok(calls[4].status)

\* the blobs of the listing the source tree request returned, in order
SourceBlobs ==
  LET k == CHOOSE j \in 1..Len(calls) : calls[j].api = "git/trees"
  IN SelectSeq(calls[k].ret, LAMBDA e : e.type = "blob")

\* the source tree has been listed
Listed == \E j \in 1..Len(calls) : calls[j].api = "git/trees" /\ Ok(calls[j].status)

Min(a, b) == IF a < b THEN a ELSE b

\* C12: a sync reads and writes only blob entries of the source listing, file
\* i of a request being the i-th blob in listing order with i <= 100; a
\* listing of more than 100 blobs is answered with success; and files_synced
\* never exceeds min(total_files, 100), total_files being the number of
\* blobs listed.
C12_SyncBlobsAndCap ==
  (fn = "sync-repo-contents" /\ Listed) =>
    LET blobs == SourceBlobs
        cap == Min(Len(blobs), 100)
    IN
    /\ \A k \in 1..Len(calls) :
          calls[k].api = "contents" =>
            /\ calls[k].item \in 1..cap
            /\ calls[k].path = blobs[calls[k].item].path
            /\ calls[k-1].api = "contents" =>
                  calls[k-1].item \in {calls[k].item - 1, calls[k].item}
    /\ Done =>
          /\ response.status = 200 /\ response.success
          /\ response.total_files = Len(blobs)
          /\ response.files_synced <= Min(response.total_files, 100)

\* a source tree of 101 files was synced: 100 files were copied, the last
\* one was never read, and the answer is a success
C12_Witness ==
  /\ fn = "sync-repo-contents" /\ Done /\ response.status = 200
  /\ response.total_files = 101 /\ response.files_synced = 100
  /\ calls[Len(calls)].item = 100 /\ calls[Len(calls)].method = "PUT"

\* the requests of the loop for file i
FileCalls(i) == {k \in 1..Len(calls) : calls[k].api = "contents" /\ calls[k].item = i}

\* the read of file i from the source branch has been issued
ReadAttempted(i) ==
  \E k \in FileCalls(i) :
    /\ calls[k].method = "GET" /\ calls[k].repo = body.sourceRepo
    /\ calls[k].json = [ref |-> body.sourceBranch]
    /\ calls[k-1].api = "contents" => calls[k-1].item = i - 1

\* C13: once the source tree is listed, no failure on a file (a non-success
\* status or a thrown fault at its read, probe or write) ends the loop: the
\* request ends only with the success response carrying the counts, and by
\* then each of the first min(n, 100) blobs has had its read attempted.
C13_SyncFileFailuresContained ==
  (fn = "sync-repo-contents" /\ Listed) =>
    /\ pc \in {"read", "probe", "write", "done"}
    /\ Done =>
          /\ response.status = 200 /\ response.success
          /\ Has(response, "files_synced") /\ Has(response, "total_files")
          /\ \A i \in 1..Min(Len(SourceBlobs), 100) : ReadAttempted(i)

\* the read of the first of two files threw, the write of the second came
\* back with a non-success status, and the request ended with success
C13_Witness ==
  /\ fn = "sync-repo-contents" /\ Done /\ response.status = 200
  /\ Listed /\ response.total_files = 2 /\ response.files_synced = 0
  /\ \E k \in FileCalls(1) : Threw(calls[k].status)
  /\ \E k \in FileCalls(2) : calls[k].method = "PUT" /\ calls[k].status = 422

\* every request issued for file i came back with a success status
AllStepsOk(i) == \A k \in FileCalls(i) : Ok(calls[k].status)

\* the source read and the destination write of file i both succeeded
ReadAndWriteOk(i) ==
  /\ \E k \in FileCalls(i) : calls[k].method = "GET" /\ Ok(calls[k].status)
  /\ \E k \in FileCalls(i) : calls[k].method = "PUT" /\ Ok(calls[k].status)

\* C14 as stated: files_synced is the number of attempted files whose read,
\* probe and write all returned a success status.
C14_AsStated ==
  (fn = "sync-repo-contents" /\ Listed /\ Done) =>
    response.files_synced =
      Cardinality({i \in 1..Min(Len(SourceBlobs), 100) : AllStepsOk(i)})

\* C14 (amended): files_synced is the number of attempted files whose source
\* read and destination write both succeeded; a file whose read or write
\* returns a non-success status, or any of whose requests throws, is not
\* counted, while a non-success status of the probe only means that the
\* write is issued without a sha.
C14_SyncedCount ==
  (fn = "sync-repo-contents" /\ Listed) =>
    /\ \A k \in 1..Len(calls) :
          (calls[k].api = "contents" /\ calls[k].method = "PUT") =>
             /\ ~Threw(calls[k-1].status)
             /\ ~Ok(calls[k-1].status) => ~Has(calls[k].json, "sha")
    /\ Done =>
          response.files_synced =
            Cardinality({i \in 1..Min(Len(SourceBlobs), 100) : ReadAndWriteOk(i)})

\* a file whose probe came back with a non-success status was written and
\* counted, next to a file whose write was refused
C14_Witness ==
  /\ fn = "sync-repo-contents" /\ Done /\ Listed
  /\ response.total_files = 2 /\ response.files_synced = 1
  /\ \E k \in FileCalls(1) :
        /\ calls[k].method = "PUT" /\ Ok(calls[k].status)
        /\ calls[k-1].status = 404
  /\ \E k \in FileCalls(2) : calls[k].method = "PUT" /\ ~Ok(calls[k].status)

\* C15: an upload-files write that carries no sha was preceded by a probe of
\* the same path that found no file, so that a path that exists is written
\* with its sha.
C15_UploadCreateOrUpdate ==
  fn = "upload-files" =>
    \A k \in 1..Len(calls) :
      (calls[k].method = "PUT" /\ ~Has(calls[k].json, "sha")) =>
         \E j \in 1..(k - 1) :
           /\ calls[j].method = "GET" /\ calls[j].api = "contents"
           /\ calls[j].path = calls[k].path /\ ~Ok(calls[j].status)

\* a request issued by the loop failed: a non-success status or a fault
Failed(c) == ~Ok(c.status) /\ c.status # Pending

\* C16: in move-files a failure on one item (a non-success status or a thrown
\* fault at its read, write or delete) does not end the batch: the request
\* ends with {success: true} and every item has had its read attempted.
C16_MoveFailureContained ==
  (fn = "move-files" /\ Done /\ credRead /\ user /\ HasToken) =>
    /\ response.status = 200 /\ Has(response, "success")
    /\ \A i \in 1..Len(body.files) :
          \E k \in ItemCalls(i) : calls[k].method = "GET"

\* the branch ref has been moved by a successful update
RefMoved ==
  \E k \in 1..Len(calls) :
    calls[k].method = "PATCH" /\ calls[k].api = "git/refs" /\ Ok(calls[k].status)

\* C17: when a step of a directory delete returns a non-success status, the
\* handler answers with that status, issues no later step, and the branch
\* ref has not been moved.
C17_DirStepFailureStops ==
  (fn = "delete-file" /\ Valid /\ Has(body, "type") /\ body.type = "dir") =>
    \A k \in 1..Len(calls) :
      (~Ok(calls[k].status) /\ ~Threw(calls[k].status)) =>
         /\ k = Len(calls)
         /\ Done /\ response.status = calls[k].status
         /\ ~RefMoved

\* the tree create of a directory delete was refused with 422 and the
\* request ended there with 422
C17_Witness ==
  /\ fn = "delete-file" /\ Done /\ response.status = 422
  /\ Len(calls) = 4
  /\ calls[4].method = "POST" /\ calls[4].api = "git/trees"
  /\ calls[4].status = 422

\* C18: in move-files an item whose read failed gets neither a write nor a
\* delete, and the loop goes on with the next item.
C18_MoveReadFailureSkips ==
  fn = "move-files" =>
    \A k \in 1..Len(calls) :
      (calls[k].method = "GET" /\ Failed(calls[k])) =>
         /\ \A j \in ItemCalls(calls[k].item) : calls[j].method = "GET"
         /\ (Done /\ calls[k].item < Len(body.files)) =>
               ItemCalls(calls[k].item + 1) # {}

\* C19: rename-file reads path, writes what it read to new_path and deletes
\* path with the sha of the request; when the read or the write returns a
\* non-success status the handler answers with that status and issues no
\* delete.
C19_RenameStopsBeforeDelete ==
  fn = "rename-file" =>
    /\ Len(calls) <= 3
    /\ Len(calls) >= 1 =>
          /\ calls[1].method = "GET" /\ calls[1].path = body.path
          /\ (~Ok(calls[1].status) /\ ~Threw(calls[1].status)) =>
                Len(calls) = 1 /\ Done /\ response.status = calls[1].status
    /\ Len(calls) >= 2 =>
          /\ Ok(calls[1].status)
          /\ calls[2].method = "PUT" /\ calls[2].path = body.new_path
          /\ calls[2].json.content = calls[1].ret
          /\ (~Ok(calls[2].status) /\ ~Threw(calls[2].status)) =>
                Len(calls) = 2 /\ Done /\ response.status = calls[2].status
    /\ \A k \in 1..Len(calls) :
          calls[k].method = "DELETE" =>
            /\ k = 3 /\ Ok(calls[1].status) /\ Ok(calls[2].status)
            /\ calls[3].path = body.path /\ calls[3].json.sha = body.sha

\* the write to new_path was refused with 422: the request ended with 422
\* after two requests
C19_Witness ==
  /\ fn = "rename-file" /\ Done /\ response.status = 422
  /\ Len(calls) = 2 /\ Ok(calls[1].status) /\ calls[2].status = 422

\* C20: in rename-file and move-files, when the write succeeded and the
\* delete of the old path failed, no further delete is issued for that
\* file (no retry, no compensating delete of the new path), and the request
\* is still answered with {success: true}.
C20_DeleteFailureLeavesBoth ==
  fn \in {"rename-file", "move-files"} =>
    \A k \in 2..Len(calls) :
      (calls[k].method = "DELETE" /\ Failed(calls[k]) /\ Ok(calls[k-1].status)) =>
         /\ \A j \in 1..Len(calls) :
               (calls[j].method = "DELETE" /\ j # k) =>
                  fn = "move-files" /\ calls[j].item # calls[k].item
         /\ Done => response.status = 200 /\ Has(response, "success")

(***************************************************************************)
(* Retries and roll-backs.                                                 *)
(***************************************************************************)
\* the requests issued for item i with the given method
ItemMethodCalls(i, method) ==
  {k \in ItemCalls(i) : calls[k].method = method}

\* C21: no request is retried and none is undone.  move-files and
\* rename-file issue at most one read, one write and one delete per item,
\* the delete last; upload-files issues exactly one write per file and
\* nothing else; sync-repo-contents issues, per file, at most one read, one
\* probe and one write in this order, never a delete, and never goes back to
\* an earlier file.
C21_NoRetryNoRollback ==
  /\ fn = "rename-file" =>
        /\ \A m \in {"GET", "PUT", "DELETE"} :
              Cardinality({k \in 1..Len(calls) : calls[k].method = m}) <= 1
        /\ \A k \in 1..Len(calls) : calls[k].method = "DELETE" => k = Len(calls)
  /\ (fn = "move-files" /\ calls # <<>>) =>
        \A i \in 1..Len(body.files) :
          /\ \A m \in {"GET", "PUT", "DELETE"} :
                Cardinality(ItemMethodCalls(i, m)) <= 1
          /\ \A k \in ItemCalls(i) :
                calls[k].method = "DELETE" => \A j \in ItemCalls(i) : j <= k
  /\ (fn = "upload-files" /\ calls # <<>>) =>
        /\ Len(calls) = Len(body.files)
        /\ \A i \in 1..Len(body.files) :
              /\ ItemCalls(i) = {i}
              /\ calls[i].method = "PUT" /\ calls[i].path = body.files[i].path
  /\ fn = "sync-repo-contents" =>
        \A k \in 2..Len(calls) :
          calls[k].api = "contents" =>
            /\ calls[k].method \in {"GET", "PUT"}
            /\ calls[k-1].api = "contents" =>
                 \/ calls[k].item = calls[k-1].item + 1 /\ calls[k].method = "GET"
                 \/ /\ calls[k].item = calls[k-1].item
                    /\ calls[k-1].method = "GET"
                    /\ \/ calls[k].method = "PUT"
                       \/ calls[k-2].api = "contents" => calls[k-2].item # calls[k].item
            /\ calls[k-1].api # "contents" => calls[k].item = 1 /\ calls[k].method = "GET"

\* a move of two files whose first read came back with a non-success
\* status and was followed by the read of the second file, and a sync whose
\* write of the first file failed and was followed by the read of the second
C21_Witness ==
  \/ /\ fn = "move-files" /\ Done /\ Len(calls) >= 2
     /\ calls[1].status = 422 /\ calls[1].method = "GET" /\ calls[2].item = 2
  \/ /\ fn = "sync-repo-contents" /\ Done
     /\ \E k \in 2..Len(calls) :
          /\ calls[k-1].method = "PUT" /\ calls[k-1].status = 422
          /\ calls[k].method = "GET" /\ calls[k].item = 2

(***************************************************************************)
(* Concurrent writers on the upstream repository.                          *)
(***************************************************************************)
\* the request the step has just issued
Issued == calls'[Len(calls')]

\* C23: whatever other writers do between the requests of a rename, when the
\* delete of the old path succeeds the content it removes there is the
\* content the handler wrote to new_path.
C23_RenameDeletesWhatItCopied ==
  [][(/\ fn = "rename-file" /\ remote.followed /\ pc = "delete"
      /\ Len(calls') = Len(calls) + 1 /\ Ok(Issued.status))
       => remote.files[body.path] = loc.fileData.content]_vars

\* the blob hash of the file a followed repository holds at a path, <<>> when
\* it holds none
VersionAt(path) ==
  IF path \in DOMAIN remote.files THEN blobSha(remote.files[path]) ELSE <<>>

\* the version of the destination file the probe of the current file saw
Probed ==
  IF loc.fileExists /\ Has(loc.existingFile, "sha") THEN loc.existingFile.sha ELSE <<>>

\* C24: in a sync, when the destination file is not, at the write, the
\* version the probe saw (another writer created, changed or removed it in
\* between), the write is refused, the file is not counted and the content
\* the other writer left is still there.
C24_SyncKeepsConcurrentContent ==
  [][(/\ fn = "sync-repo-contents" /\ remote.followed /\ pc = "write"
      /\ Len(calls') = Len(calls) + 1
      /\ VersionAt(loc.files[loc.i].path) # Probed)
       => /\ ~Ok(Issued.status)
          /\ loc'.syncedCount = loc.syncedCount
          /\ remote' = remote]_vars

\* the probe found the destination file, another writer changed it before
\* the write, and the write, naming the version probed, was refused
C24_Witness ==
  /\ fn = "sync-repo-contents" /\ remote.followed /\ Done
  /\ Has(response, "files_synced") /\ response.files_synced = 0
  /\ \E k \in 2..Len(calls) :
       /\ calls[k].method = "PUT" /\ calls[k-1].method = "GET"
       /\ Ok(calls[k-1].status) /\ ~Ok(calls[k].status)
       /\ Has(calls[k].json, "sha") /\ calls[k].json.sha = calls[k-1].ret.sha
       /\ remote.writes = <<k - 1>>
       /\ VersionAt(calls[k].path) \notin {<<>>, calls[k].json.sha}

\* the commits other writers pushed onto the followed branch
Pushed == {w \in CommitShas : w \in DOMAIN remote.parent}

\* C25: in a directory delete the ref update does not force: once another
\* commit has landed on the branch after the tip was read, the branch is
\* never moved to a commit that lacks that commit among its ancestors, and
\* an update that GitHub answers is refused and its status is the status of
\* the response.
C25_RefUpdateIsFastForward ==
  (fn = "delete-file" /\ remote.followed) =>
    /\ \A k \in 1..Len(calls) :
         calls[k].method = "PATCH" => ~Has(calls[k].json, "force")
    /\ \A w \in Pushed : IsAncestor(w, remote.head, remote.parent)
    /\ \A k \in 1..Len(calls) :
         (/\ calls[k].method = "PATCH" /\ ~Threw(calls[k].status)
          /\ \E j \in 1..Len(remote.writes) : remote.writes[j] \in 1..(k-1)) =>
            /\ ~Ok(calls[k].status)
            /\ remote.head # calls[k].json.sha
            /\ Done /\ response.status = calls[k].status

\* another commit landed after the tip was read and before the ref update,
\* which was refused with 422
C25_Witness ==
  /\ fn = "delete-file" /\ remote.followed /\ Done
  /\ Len(calls) = 6 /\ calls[6].method = "PATCH" /\ calls[6].status = 422
  /\ response.status = 422
  /\ Len(remote.writes) = 1 /\ remote.writes[1] \in 1..5
  /\ remote.head \in Pushed /\ remote.head # calls[1].ret

(***************************************************************************)
(* The tree of a directory delete.                                         *)
(***************************************************************************)
\* the same directory written the other way: with a trailing slash when the
\* path has none, without it when it has one
OtherSpelling(path) ==
  IF EndsWith(path, <<"/">>) THEN SubSeq(path, 1, Len(path) - 1)
                             ELSE path \o <<"/">>

\* C26: the tree a directory delete creates is the tree it would create for
\* the same directory spelt the other way (with or without the trailing
\* slash), and it holds neither the directory's own entry nor an entry
\* nested under it.
C26_TrailingSlashSameTree ==
  fn = "delete-file" =>
    \A k \in 2..Len(calls) :
      (calls[k].method = "POST" /\ calls[k].api = "git/trees") =>
         /\ calls[k].json.tree = newTreeOf(calls[k-1].ret, OtherSpelling(body.path))
         /\ \A j \in 1..Len(calls[k].json.tree) :
              /\ calls[k].json.tree[j].path # DirOf(body.path)
              /\ ~StartsWith(calls[k].json.tree[j].path, DirOf(body.path) \o <<"/">>)

\* C27: the tree a directory delete creates holds no entry that still
\* carries content of the deleted directory: no kept tree entry is an
\* ancestor directory of the target, resubmitted with the hash it had
\* before the deletion.
C27_NoStaleAncestorEntry ==
  fn = "delete-file" =>
    \A k \in 2..Len(calls) :
      (calls[k].method = "POST" /\ calls[k].api = "git/trees") =>
         \A j \in 1..Len(calls[k].json.tree) :
            LET e == calls[k].json.tree[j] IN
            e.type = "tree" =>
               ~StartsWith(DirOf(body.path), e.path \o <<"/">>)

(***************************************************************************)
(* What a sync may change.                                                 *)
(***************************************************************************)
\* a request that changes the repository it is sent to
Mutating(c) == c.method \in {"PUT", "POST", "PATCH", "DELETE"}

\* C28: every mutating request of a sync goes to the caller's own account
\* and the destination repository; a file write names destBranch and the
\* path of a blob of the source listing, a branch creation names destBranch;
\* when the two repositories differ nothing mutating is sent to the source.
C28_SyncWritesOnlyDestination ==
  fn = "sync-repo-contents" =>
    LET blobs == SourceBlobs IN
    \A k \in 1..Len(calls) :
      Mutating(calls[k]) =>
        /\ calls[k].owner = Username
        /\ calls[k].repo = body.destRepo
        /\ body.sourceRepo # body.destRepo => calls[k].repo # body.sourceRepo
        /\ IF calls[k].api = "contents"
             THEN /\ calls[k].method = "PUT"
                  /\ calls[k].json.branch = body.destBranch
                  /\ calls[k].item \in 1..Len(blobs)
                  /\ calls[k].path = blobs[calls[k].item].path
             ELSE /\ calls[k].api = "git/refs" /\ calls[k].method = "POST"
                  /\ calls[k].path = body.destBranch

\* a sync from r into another repository that wrote two files
C28_Witness ==
  /\ fn = "sync-repo-contents" /\ Done /\ Has(response, "files_synced")
  /\ response.files_synced = 2 /\ body.sourceRepo # body.destRepo
  /\ \E k \in 1..Len(calls) : calls[k].method = "PUT" /\ calls[k].item = 2

(***************************************************************************)
(* The stored credential and the settings dialog.                          *)
(***************************************************************************)
\* C22: a call of update_user_github_token changes public.profiles only when
\* the session's user id equals user_id; a call by anyone else raises and
\* leaves every row as it was; a permitted call leaves the row of user_id
\* holding the token, username and avatar passed (inserted when absent,
\* updated when present) and every other user's row unchanged.
C22_TokenUpdateOnlyOwnRow ==
  [][fn = "update_user_github_token" =>
       /\ profiles' # profiles => uid = body.user_id
       /\ (uid # body.user_id /\ pc' = "done") =>
             response'.raised /\ profiles' = profiles
       /\ (uid = body.user_id /\ pc' = "done") =>
             /\ ~response'.raised
             /\ DOMAIN profiles' = DOMAIN profiles \cup {body.user_id}
             /\ profiles'[body.user_id].github_access_token = body.access_token
             /\ profiles'[body.user_id].github_username = body.username
             /\ \A u \in DOMAIN profiles \ {body.user_id} :
                   profiles'[u] = profiles[u]]_vars

C30_DeleteNeedsTypedName ==
  [][(/\ fn = "RepositorySettingsDialog" /\ Len(calls') = Len(calls) + 1
      /\ Issued.name = "delete-repo")
       => /\ loc.showDangerZone
          /\ loc.confirmation = body.repo.name]_vars

====
